---------------------------- MODULE Spec2Model ----------------------------
(***************************************************************************)
(* A model of anki-photoroster: the photo persistence protocol             *)
(* (Student.save_photo), the tag merge (Student.merge_tags), the course    *)
(* tag parser (PhotoRoster.course_tag), the name formatter                 *)
(* (Student._format_name), the roster iteration (PhotoRoster.__iter__,     *)
(* PhotoRoster.num_students) and the import run of the front ends          *)
(* (anki-pdf-import.py, anki-pdf-gtk.py,                                   *)
(* anki-download-student-photos.py).                                       *)
(*                                                                         *)
(* Strings whose characters matter (headers, tags, names) are sequences of *)
(* one-character strings.  A file is a record of its bytes and its         *)
(* modification time; a directory maps every path to a file or to NoFile.  *)
(***************************************************************************)
EXTENDS Integers, Sequences, FiniteSets, TLC

VARIABLES
    dir,        \* the photo directory: path -> file or NoFile
    pre,        \* the directory as it was before the last save_photo call
    call,       \* the last save_photo call: student, photo, returned value
    prev,       \* the save_photo call before the last one
    ncalls,     \* number of save_photo calls made
    cmp_cache,  \* the cache of filecmp: comparison -> outcome
    displaced,  \* <<id, bytes>>: bytes that were at the canonical path before
                \* a call whose new photo had other bytes
    self_tags,  \* Student.tags of the record under merge
    tags_new,   \* Student.tags as they were before merge_tags
    tags_arg,   \* the list handed to merge_tags
    tpc,        \* "new" before merge_tags, "merged" after it
    header_text,    \* first line of the text of page 0 of the roster
    course_tag_cache,   \* PhotoRoster._course_tag
    got,        \* outcome of the last read of PhotoRoster.course_tag
    nreads,     \* number of reads of PhotoRoster.course_tag
    frontend,   \* "cli" anki-pdf-import.py, "gtk" anki-pdf-gtk.py,
                \* "csv" anki-download-student-photos.py
    existing_students,  \* the record store: id -> names and tags string
    roster,     \* the student records the roster yields, in order
    run_pc,     \* "init", "ready", "running", "reported", "aborted"
    pos,        \* number of roster students processed by the run
    this_course,    \* the drop-detection set
    window_tag, \* MainWindow.tag
    tag_entry,  \* text of the tag entry of the main window
    out,        \* the lines written to the import file
    reported,   \* the ids reported at the end of the run
    seeded,     \* this_course as it was when the run started
    dir0,       \* the photo directory as it was when the run started
    name_on_roster, \* the name handed to Student._format_name
    formatted,  \* outcome of Student._format_name on name_on_roster
    pages,      \* the PDF: for every page the number of its image regions
    pdfimages_path, \* whether the pdfimages program was found
    pdfimages_fails,    \* whether the pdfimages call ends with an error
    name_texts, \* the text in the name region of every image region
    it_pc,      \* the roster iterator: "created", "started", "done", "raised", "abandoned"
    pagenumber, \* page of the region the iterator comes to next
    image_index,    \* index on that page of the region it comes to next
    extracted_text, \* regions whose text was taken out of the PDF: those
                    \* of the pages whose text was extracted
    extracted_photos,   \* images taken out of the PDF so far
    yielded,    \* the records the iterator has yielded
    completed,  \* number of yielded records the consumer is done with
    num_students_got,   \* value read from PhotoRoster.num_students
    fix_in,     \* the name handed to the case correction
    fix_by,     \* "photoroster" Student._name_fixcase, "download" the
                \* name_case of anki-download-student-photos.py
    fix_out,    \* the name it returned
    raised,     \* the file operation of save_photo that failed, or the
                \* error that ended the iteration of a roster, or "none"
    chk,        \* one call of check_existing: student, the Student record
                \* handed in; existing, the entry of the record store for
                \* its id, or NoEntry; result, the record after the call;
                \* by, "cli" for check_existing of anki-pdf-import.py,
                \* "gtk" for ConflictDialog.check_existing, "none" before
                \* the call
    iterators,  \* the main_iterator generators of the window, as created
    writers,    \* which iterator made each save_photo and print call
    dialogs,    \* the iterators inside the message dialog, innermost last
    anki_folder,    \* self.anki_folder of the window
    roster_path,    \* the text of the roster entry of the window
    self_roster,    \* self.roster of the window: the path of the roster loaded, "" for None
    collections,    \* the record store of every Anki folder
    dir2,       \* the photo directory of the second Anki folder
    dir3,       \* the photo directory of the third Anki folder
    sensitive,  \* the widgets of the window that are sensitive
    nevents     \* roster, folder and tag events of the window so far

photoVars == <<dir, pre, call, prev, ncalls, displaced, cmp_cache>>

tagVars == <<self_tags, tags_new, tags_arg, tpc>>

headerVars == <<header_text, course_tag_cache, got, nreads>>

runVars == <<frontend, existing_students, roster, run_pc, pos, this_course,
             window_tag, tag_entry, out, reported, seeded, dir0>>

nameVars == <<name_on_roster, formatted>>

pdfVars == <<pages, pdfimages_path, pdfimages_fails, name_texts, it_pc,
             pagenumber, image_index,
             extracted_text, extracted_photos, yielded, completed,
             num_students_got>>

caseVars == <<fix_in, fix_by, fix_out>>

failVars == <<raised>>

guiVars == <<iterators, writers, dialogs, anki_folder, roster_path, self_roster,
             sensitive, collections, dir2, dir3, nevents>>

mergeVars == <<chk>>

chk_student == chk.student

chk_existing == chk.existing

chk_result == chk.result

chk_by == chk.by

vars == <<photoVars, tagVars, headerVars, runVars, nameVars, pdfVars,
          caseVars, failVars, guiVars, mergeVars>>

-----------------------------------------------------------------------------
(* Bounds *)

MaxBackup == 2      \* backup slots .old1.jpg .. .oldMaxBackup.jpg of a
                    \* directory at the start
MaxCalls == 2       \* save_photo calls in one behaviour
MaxTags == 2        \* longest tag list handed to merge_tags
MaxReads == 2       \* reads of PhotoRoster.course_tag in one behaviour
MaxRuns == 2        \* clicks on the Start button in one behaviour
MaxEvents == 3      \* choices of a roster or a folder and edits of the tag
                    \* in one behaviour

-----------------------------------------------------------------------------
(* Files and paths *)

IDs == {"s1", "s2"}

\* Photo contents.  "a" and "b" have the same length, "cc" is longer.
PhotoBytes == {"a", "b", "cc"}

PhotoSize(bytes) == IF bytes = "cc" THEN 2 ELSE 1

\* Modification times a file can carry.
Times == {1, 2}

Files == [bytes : PhotoBytes, mtime : Times]

NoFile == [bytes |-> "", mtime |-> 0]

\* Student.photo_filename joined to the directory: slot 0 is the canonical
\* path UCLA_Student_<id>.jpg, slot -1 is <canonical>.NEW and slot i >= 1
\* is UCLA_Student_<id>.old<i>.jpg.
photo_filename(id) == <<id, 0>>

NewPath(photopath) == <<photopath[1], -1>>

BackupPath(photopath, i) == <<photopath[1], i>>

\* Every call adds at most one backup file: the slots that the calls of one
\* behaviour can come to, from a directory with MaxBackup backups by
\* MaxCalls calls, or from a directory without backups by one call for each
\* student in each of MaxRuns runs.
LastSlot ==
    IF MaxRuns > MaxBackup + MaxCalls THEN MaxRuns ELSE MaxBackup + MaxCalls

Paths == IDs \X (-1 .. LastSlot)

None == <<"None", 0>>

\* os.path.exists
Exists(d, path) == d[path] # NoFile

\* os.rename(src, dst): dst is replaced, src is gone.
Rename(d, src, dst) == [d EXCEPT ![dst] = d[src], ![src] = NoFile]

\* os.remove(path)
Remove(d, path) == [d EXCEPT ![path] = NoFile]

\* os.stat signature used by filecmp: (type, size, mtime); all files are
\* regular files.
Sig(file) == <<PhotoSize(file.bytes), file.mtime>>

\* The cache of filecmp when the process starts.
NoCache == [key \in {} |-> FALSE]

\* filecmp.cmp clears its cache when it holds more than this many entries.
CacheLimit == 100

\* filecmp.cmp(f1, f2) with its default shallow=True: equal signatures
\* are taken as equal files without reading them; otherwise different
\* sizes are different files; otherwise the outcome is the one the cache
\* of the process holds for these two names and signatures, and the
\* bytes are compared, and the outcome cached, only when it holds none.
\* name1 and name2 are the names of the files, f1 and f2 the files.
filecmp(cache, name1, name2, f1, f2) ==
    LET s1 == Sig(f1)
        s2 == Sig(f2)
        key == <<name1, name2, s1, s2>>
    IN  IF s1 = s2 THEN [ret |-> TRUE, cache |-> cache]
        ELSE IF s1[1] # s2[1] THEN [ret |-> FALSE, cache |-> cache]
        ELSE IF key \in DOMAIN cache
        THEN [ret |-> cache[key], cache |-> cache]
        ELSE LET outcome == (f1.bytes = f2.bytes)
                 kept == IF Cardinality(DOMAIN cache) > CacheLimit
                         THEN NoCache ELSE cache
             IN  [ret |-> outcome, cache |-> (key :> outcome) @@ kept]

-----------------------------------------------------------------------------
(* Student.save_photo *)

\* The loop of lines 156-159: i counts up from 0 while the candidate
\* exists; candidate 0 is the canonical path itself.
RECURSIVE BackupLoop(_, _, _)
BackupLoop(d, photopath, i) ==
    IF Exists(d, BackupPath(photopath, i))
    THEN BackupLoop(d, photopath, i + 1)
    ELSE i

\* Lines 160-161 with a temporary path chosen although no photo exists.
photopath_new_always(photopath, photopath_backup) == NewPath(photopath)

\* Lines 155, 160-161: where the new photo is written.
photopath_new(photopath, photopath_backup) ==
    IF photopath_backup # photopath THEN NewPath(photopath) ELSE photopath

\* The whole method: the directory afterwards, the returned value and
\* the cache of filecmp afterwards.  directory is the name of the
\* directory, d its files, cache the cache of filecmp before the call.
save_photo(d, cache, directory, id, photo) ==
    LET photopath == photo_filename(id)
        photopath_backup == BackupPath(photopath, BackupLoop(d, photopath, 0))
        new == photopath_new(photopath, photopath_backup)
        d1 == [d EXCEPT ![new] = photo]
        same == filecmp(cache, <<directory, photopath>>, <<directory, new>>,
                        d1[photopath], d1[new])
    IN  IF photopath_backup = photopath
        THEN [dir |-> d1, ret |-> None, cache |-> cache]
        ELSE IF same.ret
        THEN [dir |-> Remove(d1, new), ret |-> None, cache |-> same.cache]
        ELSE [dir |-> Rename(Rename(d1, photopath, photopath_backup),
                             new, photopath),
              ret |-> photopath_backup, cache |-> same.cache]

-----------------------------------------------------------------------------
(* Specification SpecPhoto: save_photo calls on a directory *)

NoTag == <<>>

NoOutcome == [tag |-> NoTag, err |-> "unread"]

HeaderUnused ==
    /\ header_text = <<>>
    /\ course_tag_cache = NoTag
    /\ got = NoOutcome
    /\ nreads = 0

NoneTag == <<"None">>

\* No import run: everything of a run but the front end.
NoRun ==
    /\ existing_students = <<>>
    /\ roster = <<>>
    /\ run_pc = "unused"
    /\ pos = 0
    /\ this_course = {}
    /\ window_tag = NoneTag
    /\ tag_entry = <<>>
    /\ out = <<>>
    /\ reported = {}
    /\ seeded = {}
    /\ dir0 = <<>>

RunUnused ==
    /\ frontend = "unused"
    /\ NoRun

TagsUnused ==
    /\ self_tags = <<>>
    /\ tags_new = <<>>
    /\ tags_arg = <<>>
    /\ tpc = "unused"

NoNames == [preferredname |-> <<>>, fullname |-> <<>>, err |-> "unread"]

NameUnused ==
    /\ name_on_roster = <<>>
    /\ formatted = NoNames

Unread == -1

PdfUnused ==
    /\ pages = <<>>
    /\ pdfimages_path = FALSE
    /\ pdfimages_fails = FALSE
    /\ name_texts = <<>>
    /\ it_pc = "unused"
    /\ pagenumber = 0
    /\ image_index = 0
    /\ extracted_text = {}
    /\ extracted_photos = {}
    /\ yielded = <<>>
    /\ completed = 0
    /\ num_students_got = Unread

NotFixed == <<"None">>

MergeUnused ==
    chk = [student |-> <<>>, existing |-> <<>>, result |-> <<>>,
           by |-> "unused"]

GuiUnused ==
    /\ iterators = <<>>
    /\ writers = <<>>
    /\ dialogs = <<>>
    /\ anki_folder = ""
    /\ roster_path = ""
    /\ self_roster = ""
    /\ collections = <<>>
    /\ dir2 = <<>>
    /\ dir3 = <<>>
    /\ sensitive = {}
    /\ nevents = 0

CaseUnused ==
    /\ fix_in = <<>>
    /\ fix_by = "unused"
    /\ fix_out = NotFixed

NoCall == [id |-> "", photo |-> NoFile, ret |-> None]

\* Files found in the directory at the start: any canonical photo, a
\* left-over temporary file, any subset of the backup slots.
OldFile(bytes) == [bytes |-> bytes, mtime |-> 1]

CanonInit == {NoFile} \cup {OldFile(b) : b \in PhotoBytes}

\* s1 has any canonical photo and left-over files in any subset of its other
\* slots; s2 has any canonical photo and nothing else.
InitDirs ==
    {[p \in Paths |->
        IF p[2] = 0 THEN (IF p[1] = "s1" THEN c1 ELSE c2)
        ELSE IF p[1] = "s1" /\ p[2] \in S THEN OldFile("cc")
        ELSE NoFile] :
     c1 \in CanonInit, c2 \in CanonInit,
     S \in SUBSET ((-1 .. MaxBackup) \ {0})}

InitPhoto ==
    /\ dir \in InitDirs
    /\ pre = dir
    /\ call = NoCall
    /\ prev = NoCall
    /\ ncalls = 0
    /\ displaced = {}
    /\ cmp_cache = NoCache
    /\ TagsUnused
    /\ HeaderUnused
    /\ RunUnused
    /\ NameUnused
    /\ PdfUnused
    /\ CaseUnused
    /\ MergeUnused
    /\ raised = "none"
    /\ GuiUnused

\* The name of the photo directory.
Media == "collection.media"

SavePhoto ==
    \E id \in IDs, photo \in Files :
        /\ ncalls < MaxCalls
        /\ raised = "none"
        /\ LET r == save_photo(dir, cmp_cache, Media, id, photo)
           IN  /\ dir' = r.dir
               /\ cmp_cache' = r.cache
               /\ call' = [id |-> id, photo |-> photo, ret |-> r.ret]
        /\ pre' = dir
        /\ prev' = call
        /\ ncalls' = ncalls + 1
        /\ displaced' =
             IF Exists(dir, photo_filename(id))
                /\ dir[photo_filename(id)].bytes # photo.bytes
             THEN displaced \cup {<<id, dir[photo_filename(id)].bytes>>}
             ELSE displaced
        /\ UNCHANGED <<nameVars, pdfVars, mergeVars, caseVars, failVars, guiVars, tagVars, headerVars, runVars>>

\* The process ends and another one starts: the cache of filecmp is
\* empty again, the directory is as it was left.  Only a process that
\* goes on to call save_photo is of interest.
Restart ==
    /\ cmp_cache # NoCache
    /\ ncalls < MaxCalls
    /\ raised = "none"
    /\ cmp_cache' = NoCache
    /\ UNCHANGED <<dir, pre, call, prev, ncalls, displaced, nameVars, pdfVars, mergeVars,
                   caseVars, failVars, guiVars, tagVars, headerVars, runVars>>

NextPhoto ==
    \/ SavePhoto
    \/ Restart

SpecPhoto == InitPhoto /\ [][NextPhoto]_vars

-----------------------------------------------------------------------------
(* Claims about save_photo, checked under SpecPhoto *)

Called == call # NoCall

Canon == photo_filename(call.id)

BackupSlots == 1 .. LastSlot

\* The lowest i >= 1 with no file .old<i>.jpg before the call.
LowestUnused ==
    CHOOSE i \in BackupSlots :
        /\ ~Exists(pre, BackupPath(Canon, i))
        /\ \A j \in 1 .. (i - 1) : Exists(pre, BackupPath(Canon, j))

\* C1: after every save_photo call the canonical file of the student holds
\* the bytes of that call, every content that was displaced from a canonical
\* path by a call with other bytes is found in a numbered backup of that
\* student, and the call left every backup file that existed as it was.
C1_LatestAndNothingLost ==
    Called =>
        /\ dir[Canon].bytes = call.photo.bytes
        /\ \A x \in displaced :
              \E i \in BackupSlots : dir[<<x[1], i>>].bytes = x[2]
        /\ \A id \in IDs, i \in BackupSlots :
              Exists(pre, <<id, i>>) => dir[<<id, i>>] = pre[<<id, i>>]

\* C2: a call that finds other bytes at the canonical path creates exactly
\* one file, the backup with the lowest unused number, holding the previous
\* canonical file; the canonical path holds the new bytes, no temporary file
\* remains and the backup path is returned.
C2_DifferentBytesBackedUp ==
    (Called /\ Exists(pre, Canon) /\ pre[Canon].bytes # call.photo.bytes) =>
        /\ call.ret = BackupPath(Canon, LowestUnused)
        /\ dir[call.ret] = pre[Canon]
        /\ dir[Canon].bytes = call.photo.bytes
        /\ ~Exists(dir, NewPath(Canon))
        /\ \A p \in Paths \ {Canon, call.ret, NewPath(Canon)} : dir[p] = pre[p]

\* C3: a second call for the same student with the same bytes as the call
\* before it returns no backup path and leaves the directory exactly as the
\* first call left it (no backup, no temporary file, same contents).
C3_SameBytesTwiceIdempotent ==
    (Called /\ prev # NoCall /\ prev.id = call.id
        /\ prev.photo.bytes = call.photo.bytes) =>
        /\ call.ret = None
        /\ dir = pre

\* C4: a call that finds no file at the canonical path writes the photo
\* there, returns no backup path and changes no other path of the directory
\* (no temporary file, no backup, nothing of another student).
C4_NoExistingWritesDirectly ==
    (Called /\ ~Exists(pre, Canon)) =>
        /\ dir[Canon] = call.photo
        /\ call.ret = None
        /\ \A p \in Paths \ {Canon} : dir[p] = pre[p]

\* C4 witness: a call found no canonical photo although an earlier backup of
\* the same student and a photo of another student were in the directory.
C4_Witness ==
    /\ Called
    /\ ~Exists(pre, Canon)
    /\ Exists(pre, BackupPath(Canon, 1))
    /\ \E id \in IDs \ {call.id} : Exists(pre, photo_filename(id))
    /\ dir[Canon] = call.photo

-----------------------------------------------------------------------------
(* Specification SpecFail: save_photo calls one of which fails *)

\* The file operations of save_photo: the write of the new photo (lines
\* 162-167), filecmp.cmp (line 170), os.remove (line 171), the first and
\* the second os.rename (lines 173, 174).
FileOps == {"write", "cmp", "remove", "rename1", "rename2"}

\* What a write that failed in the middle has left at its target: a part
\* of the photo.
PartialFile == [bytes |-> "p", mtime |-> 2]

\* What a failed write of photo can leave at its target, where before was:
\* what was there when it fails before it writes, a part of the photo, or
\* the whole photo when it fails after the bytes are copied: shutil.move
\* (line 163) to another file system is copy2 and os.unlink of the source,
\* and an error of copystat (the file has the time of the copy) or of the
\* unlink (it has the time of the source) goes to the caller.
WriteLeaves(before, photo) ==
    {before, PartialFile}
        \cup {[bytes |-> photo.bytes, mtime |-> t] : t \in Times}

\* The two renames with the new photo moved onto the canonical path first.
replace_photo_overwrite(d, photopath, new, photopath_backup, op) ==
    IF op = "rename1" THEN d
    ELSE IF op = "rename2" THEN Rename(d, new, photopath)
    ELSE Rename(Rename(d, new, photopath), photopath, photopath_backup)

\* Lines 173-174: the two renames, up to the one that fails.
replace_photo(d, photopath, new, photopath_backup, op) ==
    IF op = "rename1" THEN d
    ELSE IF op = "rename2" THEN Rename(d, photopath, photopath_backup)
    ELSE Rename(Rename(d, photopath, photopath_backup), new, photopath)

\* Whether save_photo comes to the file operation op.
Reaches(d, cache, directory, id, photo, op) ==
    LET photopath == photo_filename(id)
        photopath_backup == BackupPath(photopath, BackupLoop(d, photopath, 0))
        new == photopath_new(photopath, photopath_backup)
        d1 == [d EXCEPT ![new] = photo]
        same == filecmp(cache, <<directory, photopath>>, <<directory, new>>,
                        d1[photopath], d1[new])
    IN  CASE op = "write" -> TRUE
          [] op = "cmp" -> photopath_backup # photopath
          [] op = "remove" -> photopath_backup # photopath /\ same.ret
          [] OTHER -> photopath_backup # photopath /\ ~same.ret

\* save_photo, lines 154-175, with the file operation op raising: the
\* directory as the call leaves it; left is what a failed write has left
\* at its target, and is not looked at for another operation.  A comparison that fails caches nothing, the operations
\* after the comparison find the cache as the comparison left it.
save_photo_fails(d, cache, directory, id, photo, op, left) ==
    LET photopath == photo_filename(id)
        photopath_backup == BackupPath(photopath, BackupLoop(d, photopath, 0))
        new == photopath_new(photopath, photopath_backup)
        d1 == [d EXCEPT ![new] = photo]
        same == filecmp(cache, <<directory, photopath>>, <<directory, new>>,
                        d1[photopath], d1[new])
    IN  IF op = "write"
        THEN [dir |-> [d EXCEPT ![new] = left], cache |-> cache]
        ELSE IF op = "cmp" THEN [dir |-> d1, cache |-> cache]
        ELSE IF op = "remove" THEN [dir |-> d1, cache |-> same.cache]
        ELSE [dir |-> replace_photo(d1, photopath, new, photopath_backup, op),
              cache |-> same.cache]

\* A call of save_photo in which a file operation fails: the error is not
\* caught, it ends the call and goes to the caller.
SavePhotoFails ==
    \E id \in IDs, photo \in Files, op \in FileOps :
        /\ ncalls < MaxCalls
        /\ raised = "none"
        /\ Reaches(dir, cmp_cache, Media, id, photo, op)
        /\ \E left \in (IF op = "write"
                        THEN WriteLeaves(
                               dir[photopath_new(photo_filename(id),
                                     BackupPath(photo_filename(id),
                                         BackupLoop(dir, photo_filename(id), 0)))],
                               photo)
                        ELSE {NoFile}) :
              LET r == save_photo_fails(dir, cmp_cache, Media, id, photo, op,
                                        left)
              IN  /\ dir' = r.dir
                  /\ cmp_cache' = r.cache
        /\ raised' = op
        /\ call' = [id |-> id, photo |-> photo, ret |-> None]
        /\ pre' = dir
        /\ prev' = call
        /\ ncalls' = ncalls + 1
        /\ UNCHANGED <<displaced, nameVars, pdfVars, mergeVars, caseVars, guiVars, tagVars,
                       headerVars, runVars>>

NextFail ==
    \/ SavePhoto
    \/ SavePhotoFails
    \/ Restart

SpecFail == InitPhoto /\ [][NextFail]_vars

\* C22: when a file operation of save_photo has failed, the error has gone
\* to the caller, and the photo that was at the canonical path before the
\* call is still in the directory, at the canonical path or at a numbered
\* backup path.
C22_FailureKeepsPreviousPhoto ==
    raised # "none" =>
        /\ raised \in FileOps
        /\ Exists(pre, Canon) =>
              \E path \in {Canon} \cup {BackupPath(Canon, i) : i \in BackupSlots} :
                  dir[path] = pre[Canon]

\* C22 witness: the second rename has failed: the canonical path is empty
\* and the photo that was there is at the backup path.
C22_Witness ==
    /\ raised = "rename2"
    /\ Exists(pre, Canon)
    /\ ~Exists(dir, Canon)
    /\ \E i \in BackupSlots :
          /\ ~Exists(pre, BackupPath(Canon, i))
          /\ dir[BackupPath(Canon, i)] = pre[Canon]

-----------------------------------------------------------------------------
(* Student.merge_tags *)

Range(seq) == {seq[i] : i \in 1 .. Len(seq)}

\* All sequences over S of length at most n.
SeqsUpTo(S, n) == UNION {[1 .. k -> S] : k \in 0 .. n}

\* merge_tags with the membership test of line 179 left out.
merge_tags_append_all(own, tags) == tags \o own

\* Lines 178-181: every tag of the record, in order, is appended to the list
\* handed in unless that list already holds it; the result is the new
\* Student.tags.
RECURSIVE merge_tags(_, _)
merge_tags(own, tags) ==
    IF own = <<>> THEN tags
    ELSE merge_tags(Tail(own),
                    IF Head(own) \in Range(tags) THEN tags
                    ELSE Append(tags, Head(own)))

-----------------------------------------------------------------------------
(* Specification SpecTags: one merge_tags call on any two tag lists *)

TagTokens == {"201X-Fall", "EXTRA", "CS32"}

PhotoUnused ==
    /\ dir = <<>>
    /\ pre = <<>>
    /\ call = NoCall
    /\ prev = NoCall
    /\ ncalls = 0
    /\ displaced = {}
    /\ cmp_cache = NoCache

InitTags ==
    /\ self_tags \in SeqsUpTo(TagTokens, MaxTags)
    /\ tags_new = self_tags
    /\ tags_arg \in SeqsUpTo(TagTokens, MaxTags)
    /\ tpc = "new"
    /\ PhotoUnused
    /\ HeaderUnused
    /\ RunUnused
    /\ NameUnused
    /\ PdfUnused
    /\ CaseUnused
    /\ MergeUnused
    /\ raised = "none"
    /\ GuiUnused

MergeTags ==
    /\ tpc = "new"
    /\ self_tags' = merge_tags(self_tags, tags_arg)
    /\ tpc' = "merged"
    /\ UNCHANGED <<nameVars, pdfVars, mergeVars, caseVars, failVars, guiVars, tags_new, tags_arg, photoVars, headerVars, runVars>>

NextTags == MergeTags

SpecTags == InitTags /\ [][NextTags]_vars

\* The position of the first occurrence of tag in seq.
FirstIndex(seq, tag) ==
    CHOOSE i \in 1 .. Len(seq) :
        seq[i] = tag /\ \A j \in 1 .. (i - 1) : seq[j] # tag

\* C6: after merge_tags(E) the tags are E in its order, followed by the tags
\* of the new record T that E does not hold, each once and in the order in
\* which T first names them.
C6_MergeKeepsExistingAppendsNew ==
    tpc = "merged" =>
        LET n == Len(tags_arg)
            rest == SubSeq(self_tags, n + 1, Len(self_tags))
        IN  /\ Len(self_tags) >= n
            /\ SubSeq(self_tags, 1, n) = tags_arg
            /\ Range(rest) = Range(tags_new) \ Range(tags_arg)
            /\ \A i, j \in 1 .. Len(rest) :
                  i < j => FirstIndex(tags_new, rest[i])
                             < FirstIndex(tags_new, rest[j])

\* C6 witness: the example of the claim, existing ["201X-Fall"] merged into
\* new ["201X-Fall", "EXTRA"].
C6_Witness ==
    /\ tpc = "merged"
    /\ tags_arg = <<"201X-Fall">>
    /\ tags_new = <<"201X-Fall", "EXTRA">>
    /\ self_tags = <<"201X-Fall", "EXTRA">>

-----------------------------------------------------------------------------
(* PhotoRoster.course_tag *)

IsSpace(c) == c = " "

\* str.split(): the maximal runs of non-space characters, in order.
RECURSIVE SplitLoop(_, _, _)
SplitLoop(str, word, words) ==
    IF str = <<>>
    THEN (IF word = <<>> THEN words ELSE Append(words, word))
    ELSE IF IsSpace(Head(str))
    THEN SplitLoop(Tail(str), <<>>,
                   IF word = <<>> THEN words ELSE Append(words, word))
    ELSE SplitLoop(Tail(str), Append(word, Head(str)), words)

Split(str) == SplitLoop(str, <<>>, <<>>)

\* " ".join(words)
RECURSIVE Join(_)
Join(words) ==
    IF words = <<>> THEN <<>>
    ELSE IF Len(words) = 1 THEN words[1]
    ELSE words[1] \o <<" ">> \o Join(Tail(words))

\* str[n:]
Drop(str, n) == SubSeq(str, n + 1, Len(str))

\* str[m-1:n], a slice that may reach past the end of the string.
Slice(str, m, n) == SubSeq(str, m, IF n > Len(str) THEN Len(str) ELSE n)

\* len("Photo Roster for ")
PrefixLen == 17

Winter == <<"W", "i", "n", "t", "e", "r">>
Spring == <<"S", "p", "r", "i", "n", "g">>
Summer == <<"S", "u", "m", "m", "e", "r">>
Fall == <<"F", "a", "l", "l">>

TERM_ABBREVS ==
    [c \in {"W", "S", "1", "F"} |->
        CASE c = "W" -> Winter
          [] c = "S" -> Spring
          [] c = "1" -> Summer
          [] c = "F" -> Fall]

\* The groups with the section taken from the third token, the one the
\* pattern skips.
CourseDescGroupsThird(words) == <<words[1], words[2], words[3], words[6]>>

\* The four groups of COURSEDESC_FORMAT in a text of six words: the third
\* word is matched by the group-less \S+ and the fifth is the literal "-".
CourseDescGroups(words) == <<words[1], words[2], words[4], words[6]>>

\* COURSEDESC_FORMAT.fullmatch(text): the pattern
\*   \s*(\S+)\s+(\S+)\s+\S+\s+(\S+)\s+-\s+(\S+)\s*
\* matches exactly the texts of six space-separated words whose fifth word
\* is "-"; <<>> stands for no match.
COURSEDESC_FORMAT(text) ==
    LET words == Split(text)
    IN  IF Len(words) = 6 /\ words[5] = <<"-">>
        THEN CourseDescGroups(words)
        ELSE <<>>

\* The property course_tag, lines 64-79: the outcome of one read and the
\* cache afterwards.
course_tag(text, cache) ==
    IF cache # NoTag
    THEN [tag |-> cache, err |-> "none", cache |-> cache]
    ELSE
      LET match == COURSEDESC_FORMAT(Drop(text, PrefixLen))
      IN  IF match = <<>>
          THEN [tag |-> NoTag, err |-> "ValueError", cache |-> cache]
          ELSE
            LET subject == match[1]
                coursenumber == match[2]
                section == match[3]
                term == match[4]
            IN  IF Len(term) < 3
                THEN [tag |-> NoTag, err |-> "IndexError", cache |-> cache]
                ELSE IF term[3] \notin DOMAIN TERM_ABBREVS
                THEN [tag |-> NoTag, err |-> "KeyError", cache |-> cache]
                ELSE
                  LET tag == subject \o coursenumber \o <<"-">> \o section
                               \o <<"-">> \o TERM_ABBREVS[term[3]]
                               \o <<"-", "2", "0">> \o SubSeq(term, 1, 2)
                  IN  [tag |-> tag, err |-> "none", cache |-> tag]

-----------------------------------------------------------------------------
(* Specification SpecHeader: reads of course_tag on a roster header *)

PhotoRosterFor == <<"P", "h", "o", "t", "o", " ", "R", "o", "s", "t", "e", "r", " ", "f", "o", "r", " ">>

\* A first line of another document, as long as the literal.
OtherPrefix == <<"C", "l", "a", "s", "s", " ", "L", "i", "s", "t", " ", "2", "0", "1", "3", ":", " ">>

Subjects == {<<"M", "A", "T", "H", "1", "1", "5", "A">>, <<"M", "A", "T", "H">>}
Numbers == {<<"1">>, <<"1", "1", "5", "A">>}
Thirds == {<<"L", "E", "C">>}
Fourths == {<<"L", "E", "C">>, <<"1">>, <<"1", "3", "F">>}
Fifths == {<<"-">>, <<"1", "3", "F">>}
Sixths == {<<"1", "3", "F">>, <<"1", "4", "W">>, <<"1", "5", "S">>, <<"1", "6", "1">>, <<"1", "3", "X">>, <<"1", "3">>, <<".", ".", ".">>, <<"-">>}

\* Headers of six words after the literal, and headers with one word less
\* or one word more.
Headers ==
    {PhotoRosterFor \o Join(<<a, b, c, d, e, f>>) :
        a \in Subjects, b \in Numbers, c \in Thirds, d \in Fourths,
        e \in Fifths, f \in Sixths}
    \cup {PhotoRosterFor \o Join(<<a, b, d, <<"-">>, f>>) :
        a \in Subjects, b \in Numbers, d \in Fourths, f \in Sixths}
    \cup {PhotoRosterFor \o Join(<<a, b, c, d, <<"-">>, f, f>>) :
        a \in Subjects, b \in Numbers, c \in Thirds, d \in Fourths,
        f \in Sixths}
    \cup {OtherPrefix \o Join(<<a, b, c, d, <<"-">>, f>>) :
        a \in Subjects, b \in Numbers, c \in Thirds, d \in Fourths,
        f \in Sixths}

InitHeader ==
    /\ header_text \in Headers
    /\ course_tag_cache = NoTag
    /\ got = NoOutcome
    /\ nreads = 0
    /\ PhotoUnused
    /\ TagsUnused
    /\ RunUnused
    /\ NameUnused
    /\ PdfUnused
    /\ CaseUnused
    /\ MergeUnused
    /\ raised = "none"
    /\ GuiUnused

ReadCourseTag ==
    /\ nreads < MaxReads
    /\ LET r == course_tag(header_text, course_tag_cache)
       IN  /\ got' = [tag |-> r.tag, err |-> r.err]
           /\ course_tag_cache' = r.cache
    /\ nreads' = nreads + 1
    /\ UNCHANGED <<nameVars, pdfVars, mergeVars, caseVars, failVars, guiVars, header_text, photoVars, tagVars, runVars>>

NextHeader == ReadCourseTag

SpecHeader == InitHeader /\ [][NextHeader]_vars

-----------------------------------------------------------------------------
(* Student._format_name and the case correction *)

UpperLetters == <<"A", "B", "C", "D", "E", "F", "G", "H", "I", "J", "K", "L", "M", "N", "O", "P", "Q", "R", "S", "T", "U", "V", "W", "X", "Y", "Z">>

LowerLetters == <<"a", "b", "c", "d", "e", "f", "g", "h", "i", "j", "k", "l", "m", "n", "o", "p", "q", "r", "s", "t", "u", "v", "w", "x", "y", "z">>

\* The position of c in seq, 0 when it is not there.
IndexOf(c, seq) ==
    IF \E i \in 1 .. Len(seq) : seq[i] = c
    THEN CHOOSE i \in 1 .. Len(seq) :
            seq[i] = c /\ \A j \in 1 .. (i - 1) : seq[j] # c
    ELSE 0

\* str.lower() and str.upper()
lower(str) ==
    [i \in 1 .. Len(str) |->
        IF IndexOf(str[i], UpperLetters) > 0
        THEN LowerLetters[IndexOf(str[i], UpperLetters)] ELSE str[i]]

upper(str) ==
    [i \in 1 .. Len(str) |->
        IF IndexOf(str[i], LowerLetters) > 0
        THEN UpperLetters[IndexOf(str[i], LowerLetters)] ELSE str[i]]

IsCased(c) == IndexOf(c, UpperLetters) > 0 \/ IndexOf(c, LowerLetters) > 0

\* str.title(): a cased character is upper case after an uncased one and
\* lower case after a cased one.
title(str) ==
    [i \in 1 .. Len(str) |->
        IF i > 1 /\ IsCased(str[i - 1])
        THEN lower(<<str[i]>>)[1] ELSE upper(<<str[i]>>)[1]]

\* str.find(sep): the first position at which sep starts, 0 for none.
Find(str, sep) ==
    IF \E i \in 1 .. (Len(str) - Len(sep) + 1) :
          SubSeq(str, i, i + Len(sep) - 1) = sep
    THEN CHOOSE i \in 1 .. (Len(str) - Len(sep) + 1) :
            /\ SubSeq(str, i, i + Len(sep) - 1) = sep
            /\ \A j \in 1 .. (i - 1) : SubSeq(str, j, j + Len(sep) - 1) # sep
    ELSE 0

\* str.split(sep) with a separator: the pieces between the occurrences of
\* sep taken from the left, empty pieces included.
RECURSIVE SplitOn(_, _)
SplitOn(str, sep) ==
    IF Find(str, sep) = 0 THEN <<str>>
    ELSE <<SubSeq(str, 1, Find(str, sep) - 1)>>
         \o SplitOn(Drop(str, Find(str, sep) + Len(sep) - 1), sep)

\* sep.join(words)
RECURSIVE JoinWith(_, _)
JoinWith(words, sep) ==
    IF words = <<>> THEN <<>>
    ELSE IF Len(words) = 1 THEN words[1]
    ELSE words[1] \o sep \o JoinWith(Tail(words), sep)

\* str.partition(" "): the text before the first space and the text after it.
partition(str) ==
    IF Find(str, <<" ">>) = 0 THEN <<str, <<>>, <<>>>>
    ELSE <<SubSeq(str, 1, Find(str, <<" ">>) - 1), <<" ">>,
           Drop(str, Find(str, <<" ">>))>>

\* filter(None, parts): the parts that are not empty.
NonEmpty(parts) == SelectSeq(parts, LAMBDA part : part # <<>>)

\* Student._name_fixcase_word, lines 266-273.
_name_fixcase_word(name) ==
    LET fixed == Slice(name, 1, 1) \o lower(Drop(name, 1))
    IN  IF Slice(fixed, 1, 2) \in {<<"M", "c">>, <<"O", "'">>, <<"D", "'">>}
        THEN Slice(fixed, 1, 2) \o upper(Slice(fixed, 3, 3))
                \o Drop(fixed, 3)
        ELSE fixed

Particles == {<<"D", "E">>, <<"E", "L">>, <<"L", "A">>, <<"L", "O", "S">>, <<"L", "A", "S">>}

\* Student._name_fixcase_hyphenated, lines 257-264.
_name_fixcase_hyphenated(name) ==
    IF name \in Particles THEN lower(name)
    ELSE LET words == SplitOn(name, <<"-">>)
         IN  JoinWith([i \in 1 .. Len(words) |-> _name_fixcase_word(words[i])],
                      <<"-">>)

\* Student._name_fixcase, lines 250-255.
_name_fixcase(name) ==
    LET words == Split(name)
    IN  Join([i \in 1 .. Len(words) |-> _name_fixcase_hyphenated(words[i])])

\* The last position of c in str, 0 for none.
LastIndexOf(c, str) ==
    IF \E i \in 1 .. Len(str) : str[i] = c
    THEN CHOOSE i \in 1 .. Len(str) :
            str[i] = c /\ \A j \in (i + 1) .. Len(str) : str[j] # c
    ELSE 0

\* Student._PARENSFORMAT.match(name), line 189: the pattern (.*)[(](.*)[)](.*)
\* is greedy, so the closing parenthesis is the last one of the name and the
\* opening one the last before it; <<>> stands for no match.
_PARENSFORMAT(name) ==
    LET close == LastIndexOf(")", name)
        open == LastIndexOf("(", SubSeq(name, 1, close - 1))
    IN  IF close = 0 \/ open = 0 THEN <<>>
        ELSE <<SubSeq(name, 1, open - 1),
               SubSeq(name, open + 1, close - 1),
               Drop(name, close)>>

JR == <<"J", "R">>

SR == <<"S", "R">>

\* Lines 224-229: the suffix of the name.
suffix_of(components) ==
    IF Len(components) = 3
    THEN (IF components[3] = JR \/ components[3] = SR
          THEN title(components[3]) ELSE components[3])
    ELSE <<>>

\* The first names with the two sources exchanged: the text in parentheses
\* as the preferred first name, the second component as the real one.
first_names_swapped(realfirstname, components) ==
    IF Len(components) >= 2
    THEN IF realfirstname # <<>>
         THEN [firstname |-> realfirstname, middlename |-> <<>>,
               realfirstname |-> _name_fixcase(components[2])]
         ELSE [firstname |-> _name_fixcase(partition(components[2])[1]),
               middlename |-> _name_fixcase(partition(components[2])[3]),
               realfirstname |-> _name_fixcase(partition(components[2])[1])]
    ELSE [firstname |-> <<>>, middlename |-> <<>>,
          realfirstname |-> realfirstname]

\* Lines 230-240: the preferred first name, the middle name and the real
\* first name.
first_names(realfirstname, components) ==
    IF Len(components) >= 2
    THEN IF realfirstname # <<>>
         THEN [firstname |-> _name_fixcase(components[2]),
               middlename |-> <<>>,
               realfirstname |-> realfirstname]
         ELSE [firstname |-> _name_fixcase(partition(components[2])[1]),
               middlename |-> _name_fixcase(partition(components[2])[3]),
               realfirstname |-> _name_fixcase(partition(components[2])[1])]
    ELSE [firstname |-> <<>>, middlename |-> <<>>,
          realfirstname |-> realfirstname]

\* The full name without the middle name.
fullname_no_middle(realfirstname, middlename, lastname, suffix) ==
    Join(NonEmpty(<<realfirstname, lastname, suffix>>))

\* Lines 246-247: the full name.
fullname_of(realfirstname, middlename, lastname, suffix) ==
    Join(NonEmpty(<<realfirstname, middlename, lastname, suffix>>))

\* Student._format_name, lines 191-248: the two names, or the error raised.
_format_name(name) ==
    LET match == _PARENSFORMAT(name)
        junk == IF match # <<>> THEN match[3] ELSE <<>>
        name1 == IF match # <<>> THEN match[1] ELSE name
        realfirstname == IF match # <<>> THEN _name_fixcase(match[2])
                         ELSE <<>>
        components == SplitOn(name1, <<",", " ">>)
    IN  IF junk # <<>> \/ Len(components) > 3
        THEN [preferredname |-> <<>>, fullname |-> <<>>,
              err |-> "ValueError"]
        ELSE
          LET suffix == suffix_of(components)
              names == first_names(realfirstname, components)
              lastname == _name_fixcase(components[1])
          IN  [preferredname |->
                  IF names.firstname # <<>>
                  THEN names.firstname \o <<" ">> \o lastname
                  ELSE lastname,
               fullname |-> fullname_of(names.realfirstname,
                                names.middlename, lastname, suffix),
               err |-> "none"]

-----------------------------------------------------------------------------
(* Specification SpecName: Student._format_name on a name of the roster *)

LastNames ==
    {<<"D", "O", "E">>,
     <<"M", "C", "D", "O", "N", "A", "L", "D", "-", "O", "'", "B", "R", "I", "E", "N">>,
     <<"D", "E", " ", "L", "A", " ", "C", "R", "U", "Z">>}

\* The second component: none, a first name, first and middle name, a
\* preferred name.
SecondParts ==
    {<<>>,
     <<",", " ", "J", "O", "H", "N">>,
     <<",", " ", "J", "O", "H", "N", " ", "Q", "U", "I", "N", "C", "Y">>,
     <<",", " ", "J", "O">>}

\* The parenthetical: none, a first name, an empty one, one with text after
\* it, two of them.
ParenParts ==
    {<<>>,
     <<" ", "(", "J", "O", "H", "N", ")">>,
     <<" ", "(", ")">>,
     <<" ", "(", "J", "O", "H", "N", ")", " ", "X">>,
     <<" ", "(", "J", "O", ")", " ", "(", "J", "O", "H", "N", ")">>}

\* The third component: none, JR and SR in several cases, another suffix,
\* and a fourth component.
SuffixParts ==
    {<<>>,
     <<",", " ", "J", "R">>,
     <<",", " ", "S", "R">>,
     <<",", " ", "I", "I", "I">>,
     <<",", " ", "j", "r">>,
     <<",", " ", "S", "r">>,
     <<",", " ", "J", "R", ",", " ", "X">>}

Names ==
    {l \o f \o x \o q : l \in LastNames, f \in SecondParts,
                         x \in SuffixParts, q \in ParenParts}
    \cup {l \o f \o q \o x : l \in LastNames, f \in SecondParts,
                              x \in SuffixParts, q \in ParenParts}

InitName ==
    /\ name_on_roster \in Names
    /\ formatted = NoNames
    /\ PhotoUnused
    /\ TagsUnused
    /\ HeaderUnused
    /\ RunUnused
    /\ PdfUnused
    /\ CaseUnused
    /\ MergeUnused
    /\ raised = "none"
    /\ GuiUnused

\* Student.__init__, line 133: the name is formatted.
FormatName ==
    /\ formatted = NoNames
    /\ formatted' = _format_name(name_on_roster)
    /\ UNCHANGED <<name_on_roster, pdfVars, mergeVars, caseVars, failVars, guiVars, photoVars, tagVars, headerVars, runVars>>

NextName == FormatName

SpecName == InitName /\ [][NextName]_vars

-----------------------------------------------------------------------------
(* PhotoRoster.num_students and PhotoRoster.__iter__ *)

MaxPages == 3       \* pages of the longest roster modelled

\* Photos on a full page of the roster.
PerPage == 6

\* An image of the PDF, and the region of the page it fills: page and index
\* on the page, both counted from 0.
Image(page, index) == <<page, index>>

NoImage == <<-1, -1>>

RECURSIVE ImagesBefore(_, _)
\* The number of images on the pages before page number page.
ImagesBefore(pp, page) ==
    IF page = 0 THEN 0 ELSE ImagesBefore(pp, page - 1) + pp[page]

AllImages(pp) ==
    {im \in (0 .. (Len(pp) - 1)) \X (0 .. (PerPage - 1)) :
        im[2] < pp[im[1] + 1]}

\* pdfimages -j writes the images of the whole document to numbered files,
\* counted from 0 in the order of the document: the image in file number.
ImageOfFile(pp, number) ==
    IF \E im \in AllImages(pp) : ImagesBefore(pp, im[1]) + im[2] = number
    THEN CHOOSE im \in AllImages(pp) :
            ImagesBefore(pp, im[1]) + im[2] = number
    ELSE NoImage

\* Line 110: the number of the file taken for an image region.
imagenumber(pp, page, image_id) == page * PerPage + image_id

\* num_students as the number of image regions of all pages.
num_students_counted(pp) == ImagesBefore(pp, Len(pp))

\* Lines 57-62: PhotoRoster.num_students.
num_students(pp) ==
    LET n == Len(pp) - 1
    IN  n * PerPage + pp[n + 1]

\* Every image dumped whether or not pdfimages is there.
dump_always(found, pp) == AllImages(pp)

\* Lines 86-93: with pdfimages every image of the document is dumped into a
\* temporary directory when the iteration starts.
dump(found, pp) == IF found THEN AllImages(pp) ELSE {}

RECURSIVE NextRegion(_, _, _)
\* Lines 95-99: the loops over the pages and over the image mapping of a
\* page come to the next region, or past the last page.
NextRegion(pp, page, index) ==
    IF page >= Len(pp) THEN <<page, index>>
    ELSE IF index < pp[page + 1] THEN <<page, index>>
    ELSE NextRegion(pp, page + 1, 0)

ImageCounts == {1, 5, PerPage}

Pdfs == UNION {[1 .. n -> ImageCounts] : n \in 1 .. MaxPages}

RECURSIVE lstrip(_)
lstrip(str) ==
    IF str # <<>> /\ IsSpace(Head(str)) THEN lstrip(Tail(str)) ELSE str

RECURSIVE rstrip(_)
rstrip(str) ==
    IF str # <<>> /\ IsSpace(str[Len(str)])
    THEN rstrip(SubSeq(str, 1, Len(str) - 1)) ELSE str

\* PhotoRoster.get_first_line, lines 117-124, on the characters of the top
\* line of a region: min() of an empty list raises ValueError when the
\* region has no character, else the line is stripped.
get_first_line(text) ==
    IF text = <<>> THEN [text |-> <<>>, err |-> "ValueError"]
    ELSE [text |-> lstrip(rstrip(text)), err |-> "none"]

\* The name of a student as the roster has it.
GoodName == <<"D", "O", "E", ",", " ", "J", "O", " ", "(", "J", "O", "H", "N", ")">>

\* A name _format_name rejects, and a name region without characters.
MalformedName == <<"D", "O", "E", ",", " ", "J", "O", " ", "(", "J", "O", "H", "N", ")", " ", "X">>

EmptyRegion == <<>>

\* The text of the name region of every image region of a roster: the
\* name of a student everywhere, but for at most one of the first two
\* regions of the document, which has a name _format_name rejects or no
\* character at all.
BadRegions(pp) ==
    {im \in AllImages(pp) : ImagesBefore(pp, im[1]) + im[2] < 2}

NameTextsOf(pp) ==
    {[im \in AllImages(pp) |-> GoodName]}
    \cup {[im \in AllImages(pp) |-> IF im = bad THEN t ELSE GoodName] :
            bad \in BadRegions(pp), t \in {MalformedName, EmptyRegion}}

\* The image regions of the pages in a set of page numbers.
RegionsOfPages(pp, pagenumbers) ==
    {im \in AllImages(pp) : im[1] \in pagenumbers}

\* The images pdfimages has written when it stops at some image of the
\* document: those of the first k files.
FirstImages(pp, k) ==
    {im \in AllImages(pp) : ImagesBefore(pp, im[1]) + im[2] < k}

\* First lines of the rosters iterated: one with a course description, one
\* that is the title alone, and one whose term has no known letter.
PdfHeaders ==
    {PhotoRosterFor \o <<"M", "A", "T", "H", " ", "1", "1", "5", "A", " ", "L", "E", "C", " ", "1", " ", "-", " ", "1", "3", "F">>,
     <<"P", "h", "o", "t", "o", " ", "R", "o", "s", "t", "e", "r">>,
     PhotoRosterFor \o <<"M", "A", "T", "H", " ", "1", "1", "5", "A", " ", "L", "E", "C", " ", "1", " ", "-", " ", "1", "3", "X">>}

\* The loops that iterate a roster: the one of anki-pdf-import.py (line
\* 107) and the one of main_iterator of anki-pdf-gtk.py (line 217).
Consumers == {"cli", "gtk"}

InitPdf ==
    /\ pages \in Pdfs
    /\ header_text \in PdfHeaders
    /\ course_tag_cache = NoTag
    /\ got = NoOutcome
    /\ nreads = 0
    /\ frontend \in Consumers
    /\ NoRun
    /\ pdfimages_path \in BOOLEAN
    /\ pdfimages_fails \in (IF pdfimages_path THEN BOOLEAN ELSE {FALSE})
    /\ name_texts \in NameTextsOf(pages)
    /\ it_pc = "created"
    /\ pagenumber = 0
    /\ image_index = 0
    /\ extracted_text = {}
    /\ extracted_photos = {}
    /\ yielded = <<>>
    /\ completed = 0
    /\ num_students_got = Unread
    /\ PhotoUnused
    /\ TagsUnused
    /\ NameUnused
    /\ CaseUnused
    /\ MergeUnused
    /\ raised = "none"
    /\ GuiUnused

\* The first next() of a generator whose pdfimages call fails.
DumpFails == it_pc = "created" /\ pdfimages_path /\ pdfimages_fails

\* The images out of the PDF after the start of the generator, lines
\* 86-93, which the first next() runs.
Dumped ==
    IF it_pc = "created" THEN dump(pdfimages_path, pages)
    ELSE extracted_photos

\* The pages the loop of line 95 enters in this call of next() on its way
\* to the page pagenumber_new: lines 96-98 extract the text and the layout
\* of the whole page before the first region of the page is looked at.
EnteredPages(pagenumber_new) ==
    IF it_pc = "created" THEN 0 .. pagenumber_new
    ELSE (pagenumber + 1) .. pagenumber_new

\* The first next() when pdfimages ends with an error: check_call raises
\* CalledProcessError (line 91) before any page is read.  pdfimages may
\* have written the first images of the document by then; the temporary
\* directory is removed and the generator is finished.
IterDumpFails ==
    /\ DumpFails
    /\ \E k \in 0 .. Cardinality(AllImages(pages)) :
           extracted_photos' = FirstImages(pages, k)
    /\ it_pc' = "raised"
    /\ raised' = "CalledProcessError"
    /\ UNCHANGED <<pages, pdfimages_path, pdfimages_fails, name_texts,
                   pagenumber, image_index, extracted_text, yielded,
                   completed, num_students_got, photoVars, tagVars,
                   headerVars, runVars, nameVars, caseVars, guiVars,
                   mergeVars>>

\* next(iterator) that comes to a student, lines 85-115.  The consumer
\* calls it when it is done with the record before.  The first call dumps
\* the photos (lines 86-93).  The text of a page is extracted when the loop
\* enters the page (lines 96-98).  Then, for the region: get_first_line
\* raises ValueError for a name region without characters (line 123); the
\* image is taken from the file of pdfimages or from the page (lines
\* 109-113); self.course_tag is read (line 115), the first read parses the
\* header and keeps the tag; Student() raises ValueError for a name
\* _format_name rejects (line 133).  An error leaves the generator through
\* the with statement: no record is yielded and the generator is finished.
IterYield ==
    /\ it_pc \in {"created", "started"}
    /\ ~DumpFails
    /\ completed = Len(yielded)
    /\ \E region \in {NextRegion(pages, pagenumber, image_index)} :
        /\ region[1] < Len(pages)
        /\ \E line \in {get_first_line(name_texts[Image(region[1], region[2])])} :
           \E r \in {course_tag(header_text, course_tag_cache)} :
           \E err \in {IF line.err # "none" THEN line.err
                       ELSE IF r.err # "none" THEN r.err
                       ELSE _format_name(line.text).err} :
               /\ extracted_text' =
                     extracted_text
                     \cup RegionsOfPages(pages, EnteredPages(region[1]))
               /\ extracted_photos' =
                     IF pdfimages_path \/ line.err # "none" THEN Dumped
                     ELSE Dumped \cup {Image(region[1], region[2])}
               /\ pagenumber' = region[1]
               /\ image_index' = region[2] + 1
               /\ got' = IF line.err = "none"
                         THEN [tag |-> r.tag, err |-> r.err] ELSE got
               /\ course_tag_cache' =
                     IF line.err = "none" THEN r.cache ELSE course_tag_cache
               /\ raised' = err
               /\ IF err = "none"
                  THEN /\ yielded' = Append(yielded,
                            [region |-> Image(region[1], region[2]),
                             photo |-> IF pdfimages_path
                                       THEN ImageOfFile(pages,
                                               imagenumber(pages, region[1], region[2]))
                                       ELSE Image(region[1], region[2]),
                             tags |-> Split(r.tag)])
                       /\ it_pc' = "started"
                  ELSE /\ yielded' = yielded
                       /\ it_pc' = "raised"
    /\ UNCHANGED <<pages, pdfimages_path, pdfimages_fails, name_texts,
                   completed, num_students_got, header_text, nreads,
                   photoVars, tagVars, runVars, nameVars, caseVars, guiVars,
                   mergeVars>>

\* next(iterator) after the last student: the loops end, the temporary
\* directory is removed.
IterStop ==
    /\ it_pc \in {"created", "started"}
    /\ ~DumpFails
    /\ completed = Len(yielded)
    /\ NextRegion(pages, pagenumber, image_index)[1] >= Len(pages)
    /\ extracted_photos' = Dumped
    /\ it_pc' = "done"
    /\ UNCHANGED <<pages, pdfimages_path, pdfimages_fails, name_texts,
                   pagenumber, image_index, extracted_text, yielded,
                   completed, num_students_got, photoVars, tagVars,
                   headerVars, runVars, nameVars, caseVars, failVars,
                   guiVars, mergeVars>>

\* The body of the loop of main_iterator for the record it was given,
\* anki-pdf-gtk.py lines 218-223, up to its yield: the photo is saved, the
\* record merged, the line written.  With pdfimages save_photo moves the
\* file named in the record (photoroster.py line 163): when pdfimages wrote
\* no file of that number, shutil.move raises FileNotFoundError, the idle
\* callback ends and the roster's generator is never resumed.  What the
\* body does to the directory and the file is in GuiIdleStudent; here it is
\* the step after which the next idle call resumes the generator.
ConsumeRecord ==
    /\ frontend = "gtk"
    /\ it_pc = "started"
    /\ completed < Len(yielded)
    /\ IF pdfimages_path /\ yielded[completed + 1].photo = NoImage
       THEN /\ it_pc' = "abandoned"
            /\ raised' = "FileNotFoundError"
            /\ completed' = completed
       ELSE /\ it_pc' = it_pc
            /\ raised' = raised
            /\ completed' = completed + 1
    /\ UNCHANGED <<pages, pdfimages_path, pdfimages_fails, name_texts,
                   pagenumber, image_index, extracted_text,
                   extracted_photos, yielded, num_students_got, photoVars,
                   tagVars, headerVars, runVars, nameVars, caseVars,
                   guiVars, mergeVars>>

\* The body of the loop of anki-pdf-import.py for the record it was given,
\* lines 108-109: the id is discarded from this_course and student.save_image
\* raises AttributeError, which ends the script.  The record is not
\* completed and the generator is never resumed.
CliBodyRaises ==
    /\ frontend = "cli"
    /\ it_pc = "started"
    /\ completed < Len(yielded)
    /\ it_pc' = "abandoned"
    /\ raised' = "AttributeError"
    /\ UNCHANGED <<pages, pdfimages_path, pdfimages_fails, name_texts,
                   pagenumber, image_index, extracted_text,
                   extracted_photos, yielded, completed, num_students_got,
                   photoVars, tagVars, headerVars, runVars, nameVars,
                   caseVars, guiVars, mergeVars>>

\* A read of PhotoRoster.num_students (anki-pdf-gtk.py line 211).
ReadNumStudents ==
    /\ num_students_got = Unread
    /\ num_students_got' = num_students(pages)
    /\ UNCHANGED <<pages, pdfimages_path, pdfimages_fails, name_texts,
                   it_pc, pagenumber, image_index, extracted_text,
                   extracted_photos, yielded, completed, photoVars,
                   tagVars, headerVars, runVars, nameVars, caseVars,
                   failVars, guiVars, mergeVars>>

NextPdf ==
    \/ ReadCourseTag
    \/ IterDumpFails
    \/ IterYield
    \/ IterStop
    \/ ConsumeRecord
    \/ CliBodyRaises
    \/ ReadNumStudents

SpecPdf == InitPdf /\ [][NextPdf]_vars

-----------------------------------------------------------------------------
(* The import run: the record store, the merge and the front ends *)

\* existing_students.get(idnumber) for an id that is not in the record
\* store: None, which no entry of the store equals.
NoEntry == [preferredname |-> <<"None">>, fullname |-> <<"None">>,
            tags |-> <<"None">>]

\* The entry of a note whose name fields and tags are empty, as
\* load_existing_students keeps it (photoroster.py line 40).
EmptyEntry == [preferredname |-> <<>>, fullname |-> <<>>, tags |-> <<>>]

\* needle in text, for Python strings.
IsSubstring(needle, text) ==
    \E i \in 0 .. (Len(text) - Len(needle)) :
        SubSeq(text, i + 1, i + Len(needle)) = needle

\* The error, if any, that stops the iterator when it builds the record of
\* a region: lines 104-105 and Student.__init__ line 133.
StudentError(entry) ==
    IF get_first_line(entry.nametext).err # "none"
    THEN get_first_line(entry.nametext).err
    ELSE _format_name(get_first_line(entry.nametext).text).err

\* Student.__init__, lines 130-135: the names are those _format_name gives,
\* the tags are the course tag split at white space.
Student(entry, tags) ==
    LET names == _format_name(get_first_line(entry.nametext).text)
    IN  [idnumber |-> entry.idnumber,
         preferredname |-> names.preferredname,
         fullname |-> names.fullname,
         tags |-> Split(tags)]

\* Student.__str__, lines 183-186; the image tag is fixed by the id.
Line(student) ==
    [idnumber |-> student.idnumber,
     preferredname |-> student.preferredname,
     fullname |-> student.fullname,
     tags |-> Join(student.tags)]

\* The set comprehension of anki-pdf-import.py lines 102-104 and of
\* MainWindow.check_tag lines 122-124: the ids whose tags string contains
\* the tag with one space before and one space after it.
CourseMembers(text, store) ==
    {id \in IDs : store[id] # NoEntry
                  /\ IsSubstring(<<" ">> \o text \o <<" ">>, store[id].tags)}

\* check_existing of anki-pdf-import.py, lines 54-70.  The loop of the
\* script calls it at line 110, which is not reached: line 109 raises.
check_existing(student, existing) ==
    IF existing = NoEntry THEN student
    ELSE
      LET named ==
            IF existing.preferredname # student.preferredname
               \/ existing.fullname # student.fullname
            THEN [student EXCEPT !.preferredname = existing.preferredname,
                                 !.fullname = existing.fullname]
            ELSE student
      IN  [named EXCEPT !.tags = merge_tags(student.tags,
                                            Split(existing.tags))]

\* ConflictDialog.check_existing with the tags of the roster appended to
\* those of the store without a look at what the store already has.
ConflictDialog_check_existing_append_tags(student, existing) ==
    IF existing = NoEntry THEN student
    ELSE [student EXCEPT !.tags = Split(existing.tags) \o student.tags]

\* ConflictDialog.check_existing of anki-pdf-gtk.py, lines 244-265: the tags
\* are merged, the differences are shown in a message dialog, the names of
\* the record stay as parsed.
ConflictDialog_check_existing(student, existing) ==
    IF existing = NoEntry THEN student
    ELSE [student EXCEPT !.tags = merge_tags(student.tags,
                                             Split(existing.tags))]

\* warn_user_callback of anki-pdf-import.py, lines 73-87: the old photo goes
\* to the first free .old<n> name, n counted from 1, the new one takes its
\* place.
warn_user_callback(d, oldpath, newpath) ==
    Rename(Rename(d, oldpath, BackupPath(oldpath, BackupLoop(d, oldpath, 1))),
           newpath, oldpath)

\* MainWindow.check_tag, lines 116-131: the window's tag and set afterwards.
check_tag(text, old_tag, old_set, store) ==
    IF old_tag = text THEN [tag |-> old_tag, this_course |-> old_set]
    ELSE IF text # <<>>
    THEN [tag |-> text, this_course |-> CourseMembers(text, store)]
    ELSE [tag |-> text, this_course |-> {}]

-----------------------------------------------------------------------------
(* Specification SpecRun: one import run of one front end *)

CourseHeader == <<"P", "h", "o", "t", "o", " ", "R", "o", "s", "t", "e", "r", " ", "f", "o", "r", " ", "M", "A", "T", "H", " ", "1", "1", "5", "A", " ", "L", "E", "C", " ", "1", " ", "-", " ", "1", "3", "F">>

CT == <<"M", "A", "T", "H", "1", "1", "5", "A", "-", "1", "-", "F", "a", "l", "l", "-", "2", "0", "1", "3">>

OT == <<"C", "S", "3", "2", "-", "1", "-", "F", "a", "l", "l", "-", "2", "0", "1", "3">>

Sp == <<" ">>

\* Tags strings of the record store: the course tag as Anki stores it
\* (spaces around), first and last without surrounding spaces, only as part
\* of a longer token, twice, and not at all.
TagStrings ==
    {Sp \o CT \o Sp,
     CT \o Sp \o OT,
     OT \o Sp \o CT,
     Sp \o CT \o <<"X">> \o Sp,
     Sp \o CT \o Sp \o CT \o Sp,
     Sp \o OT \o Sp}

\* The names _format_name gives for the name on the roster.
ParsedNames ==
    [preferredname |-> _format_name(GoodName).preferredname,
     fullname |-> _format_name(GoodName).fullname]

StoredNames ==
    {ParsedNames,
     [preferredname |-> <<"J", "o", "e", " ", "D", "o", "e">>, fullname |-> <<"J", "o", "h", "n", " ", "D", "o", "e">>],
     [preferredname |-> <<"J", "o", " ", "D", "o", "e">>, fullname |-> <<"J", "o", "h", "n", " ", "Q", " ", "D", "o", "e">>]}

Entries(names, tagstrings) ==
    {NoEntry} \cup
    {[preferredname |-> nm.preferredname, fullname |-> nm.fullname,
      tags |-> t] : nm \in names, t \in tagstrings}

\* s1 has any names and any tags string, s2 the names of the roster and
\* the tag of this course or of another one.
Stores ==
    {[id \in IDs |-> IF id = "s1" THEN e1 ELSE e2] :
        e1 \in Entries(StoredNames, TagStrings) \cup {EmptyEntry},
        e2 \in Entries({ParsedNames}, {Sp \o CT \o Sp, Sp \o OT \o Sp})}

\* The photo of a roster student as extracted in this run.
RosterPhoto == [bytes |-> "b", mtime |-> 2]

\* The texts of the name region of a student.
NameTexts(id) ==
    IF id = "s1" THEN {GoodName, MalformedName} ELSE {GoodName, EmptyRegion}

RosterEntry(id, nametext) ==
    [idnumber |-> id, nametext |-> nametext, photo |-> RosterPhoto]

\* Rosters: every sequence of distinct students.
Rosters ==
    {<<>>}
    \cup UNION {{<<RosterEntry(id, t)>> : t \in NameTexts(id)} : id \in IDs}
    \cup UNION {{<<RosterEntry(pair[1], t1), RosterEntry(pair[2], t2)>> :
                    t1 \in NameTexts(pair[1]), t2 \in NameTexts(pair[2])} :
                 pair \in {q \in IDs \X IDs : q[1] # q[2]}}

\* The rosters of the CSV front end: their names are formatted by the
\* script's own format_name.
GoodRosters ==
    {r \in Rosters : \A i \in 1 .. Len(r) : r[i].nametext = GoodName}

RunDirs ==
    {[p \in Paths |->
        IF p[2] # 0 THEN NoFile ELSE IF p[1] = "s1" THEN c1 ELSE c2] :
     c1 \in {NoFile, OldFile("a"), OldFile("b")},
     c2 \in {NoFile, OldFile("a")}}

\* A photo directory without files.
EmptyDir == [p \in Paths |-> NoFile]

\* The Anki folders the window can be pointed at: "f1" and "f2" hold a
\* collection, "f3" has the files check_anki_folder looks for (lines
\* 49-51), so that the folder chooser accepts it, and load_existing_students
\* raises for it (photoroster.py lines 30-36).  The files whose absolute
\* paths are "r1", the roster of the run, "r2", a roster of another course,
\* and "bad", a file that is no roster.
Folders == {"f1", "f2", "f3"}

\* The folder whose collection does not load.
NoCollection == "f3"

\* self.existing_students = None, anki-pdf-gtk.py line 69: no record store.
\* No entry of it is ever read.
NoStore ==
    [id \in IDs |-> [preferredname |-> <<"NoStore">>,
                     fullname |-> <<"NoStore">>, tags |-> <<"NoStore">>]]

\* The widgets enable_all switches (lines 43-47): the roster entry with its
\* button, the tag entry, the Start button.
Widgets == {"roster", "tag", "start"}

\* The widgets that are sensitive when the window has been built with a
\* folder whose collection loads and an empty roster entry: lines 81-82
\* make the roster entry and its button sensitive; the tag entry and the
\* Start button are as main-window.ui has them, insensitive until
\* check_photo_roster has loaded a roster (lines 103-104, 112-113).
InitSensitive == {"roster"}

\* preferences.get("anki_folder", None), line 37, when the preferences
\* name no folder: the program has not been pointed at one yet.
NoPreference == ""

\* The folders the preferences can name when the window is built.
StartFolders == {NoPreference} \cup Folders

\* self.existing_students when check_anki_collection has returned at line
\* 60: the attribute has not been assigned.  No entry of it is ever read.
NotAssigned ==
    [id \in IDs |-> [preferredname |-> <<"NotAssigned">>,
                     fullname |-> <<"NotAssigned">>,
                     tags |-> <<"NotAssigned">>]]

RosterPaths == {"r1", "r2"}

NotARoster == "bad"

\* A path of the file "r2" relative to the working directory.
RelativePath == "./r2"

\* The texts the roster entry can have: empty, the absolute path of a file,
\* and a relative one.
EntryTexts == {""} \cup RosterPaths \cup {NotARoster, RelativePath}

\* os.path.abspath(os.path.expanduser(path)), photoroster.py line 50.
abspath(path) == IF path = RelativePath THEN "r2" ELSE path

OtherHeader == <<"P", "h", "o", "t", "o", " ", "R", "o", "s", "t", "e", "r", " ", "f", "o", "r", " ", "C", "S", " ", "3", "2", " ", "L", "E", "C", " ", "1", " ", "-", " ", "1", "3", "F">>

\* The record store of the second Anki folder: s2 only, in another course.
OtherStore ==
    [id \in IDs |->
        IF id = "s2"
        THEN [preferredname |-> ParsedNames.preferredname,
              fullname |-> ParsedNames.fullname, tags |-> Sp \o OT \o Sp]
        ELSE NoEntry]

\* The record stores of the first Anki folder of the window: s1 is new, or
\* in this course with the names of the roster, with other names, or with
\* the course tag as the first token.
GuiStores ==
    {[id \in IDs |-> IF id = "s1" THEN e1 ELSE NoEntry] :
        e1 \in {NoEntry, EmptyEntry}
               \cup Entries({ParsedNames},
                            {Sp \o CT \o Sp, CT \o Sp \o OT})
               \cup Entries({nm \in StoredNames :
                                nm.fullname = ParsedNames.fullname},
                            {Sp \o CT \o Sp})}

\* The rosters of the window: no student, one, two, and two of which the
\* second has a name region without characters.
GuiRosters ==
    {<<>>,
     <<RosterEntry("s1", GoodName)>>,
     <<RosterEntry("s1", GoodName), RosterEntry("s2", GoodName)>>,
     <<RosterEntry("s1", GoodName), RosterEntry("s2", EmptyRegion)>>}

\* The roster of the other course.
OtherRoster == <<RosterEntry("s2", GoodName)>>

\* The photo directories of the first folder of the window: s1 has no
\* photo or one with other bytes than the photo of the roster, s2 none.
GuiDirs ==
    {d \in RunDirs : /\ d[photo_filename("s2")] = NoFile
                     /\ d[photo_filename("s1")] # OldFile("b")}

\* The record store of every folder, that of the first folder being store.
CollectionsWith(store) ==
    [f \in Folders |-> IF f = "f1" THEN store
                       ELSE IF f = NoCollection THEN NoStore
                       ELSE OtherStore]

\* MainWindow.check_anki_collection, lines 53-83, as MainWindow.__init__
\* calls it (line 41) with the folder of the preferences and an empty
\* roster entry: the record store and the sensitive widgets afterwards.
\* Without a folder (lines 54-60) and with a folder whose collection does
\* not load (lines 68-74) enable_all(False) is called; else the roster
\* entry and its button are made sensitive and check_photo_roster returns
\* at line 89.
check_anki_collection_init(folder, stores) ==
    IF folder = NoPreference
    THEN [existing_students |-> NotAssigned, sensitive |-> {}]
    ELSE IF stores[folder] = NoStore
    THEN [existing_students |-> NoStore, sensitive |-> {}]
    ELSE [existing_students |-> stores[folder],
          sensitive |-> InitSensitive]

InitRun ==
    /\ frontend \in {"cli", "gtk", "csv"}
    /\ IF frontend = "gtk"
       THEN /\ collections \in {CollectionsWith(store) : store \in GuiStores}
            /\ anki_folder \in StartFolders
            /\ \E c \in {check_anki_collection_init(anki_folder,
                                                    collections)} :
                   /\ existing_students = c.existing_students
                   /\ sensitive = c.sensitive
            /\ dir2 = EmptyDir
            /\ dir3 = EmptyDir
       ELSE /\ existing_students \in Stores
            /\ anki_folder = ""
            /\ collections = <<>>
            /\ sensitive = {}
            /\ dir2 = <<>>
            /\ dir3 = <<>>
    /\ roster \in (IF frontend = "csv" THEN GoodRosters
                   ELSE IF frontend = "gtk" THEN GuiRosters ELSE Rosters)
    /\ header_text = CourseHeader
    /\ course_tag_cache = NoTag
    /\ got = NoOutcome
    /\ nreads = 0
    /\ dir \in (IF frontend = "csv" THEN {EmptyDir}
                ELSE IF frontend = "gtk" THEN GuiDirs ELSE RunDirs)
    /\ pre = dir
    /\ dir0 = dir
    /\ call = NoCall
    /\ prev = NoCall
    /\ ncalls = 0
    /\ displaced = {}
    /\ cmp_cache = NoCache
    /\ TagsUnused
    /\ NameUnused
    /\ PdfUnused
    /\ CaseUnused
    /\ MergeUnused
    /\ raised = "none"
    /\ iterators = <<>>
    /\ writers = <<>>
    /\ dialogs = <<>>
    /\ roster_path = ""
    /\ self_roster = ""
    /\ nevents = 0
    /\ run_pc = "init"
    /\ pos = 0
    /\ this_course = {}
    /\ window_tag = NoneTag
    /\ tag_entry = <<>>
    /\ out = <<>>
    /\ reported = {}
    /\ seeded = {}

\* The record of the next roster student.
NextStudent == Student(roster[pos + 1], course_tag_cache)

\* anki-pdf-import.py lines 99-105: the course tag is read, the set seeded.
CliStart ==
    /\ frontend = "cli"
    /\ run_pc = "init"
    /\ LET r == course_tag(header_text, course_tag_cache)
       IN  /\ r.err = "none"
           /\ course_tag_cache' = r.cache
           /\ this_course' = CourseMembers(r.tag, existing_students)
           /\ seeded' = CourseMembers(r.tag, existing_students)
    /\ run_pc' = "running"
    /\ UNCHANGED <<nameVars, pdfVars, mergeVars, caseVars, failVars, guiVars, photoVars, tagVars, header_text, got, nreads, frontend,
                   existing_students, roster, pos, window_tag, tag_entry,
                   out, reported, dir0>>

\* anki-pdf-import.py lines 107-109: one pass of the loop.  The id is
\* taken out of the set, then line 109 calls student.save_image: class
\* Student has no attribute of that name, AttributeError is raised, leaves
\* the with block, which closes the import file, and ends the program.
\* No photo is saved, no line written, nothing reported.
CliStudent ==
    /\ frontend = "cli"
    /\ run_pc = "running"
    /\ pos < Len(roster)
    /\ StudentError(roster[pos + 1]) = "none"
    /\ this_course' = this_course \ {NextStudent.idnumber}
    /\ run_pc' = "AttributeError"
    /\ UNCHANGED <<nameVars, pdfVars, mergeVars, caseVars, failVars, guiVars, photoVars,
                   tagVars, headerVars, frontend, existing_students, roster,
                   pos, window_tag, tag_entry, out, reported, seeded, dir0>>

\* anki-pdf-import.py line 107: the iterator raises when it builds the next
\* record; the error leaves the with block, which closes the import file,
\* and ends the program.
CliParseError ==
    /\ frontend = "cli"
    /\ run_pc = "running"
    /\ pos < Len(roster)
    /\ StudentError(roster[pos + 1]) # "none"
    /\ run_pc' = "aborted"
    /\ UNCHANGED <<nameVars, pdfVars, mergeVars, caseVars, failVars, guiVars, photoVars, tagVars, headerVars,
                   frontend, existing_students, roster, pos, this_course,
                   window_tag, tag_entry, out, reported, seeded, dir0>>

\* anki-pdf-import.py lines 112-119: the students left in the set are
\* listed.
CliReport ==
    /\ frontend = "cli"
    /\ run_pc = "running"
    /\ pos = Len(roster)
    /\ reported' = this_course
    /\ run_pc' = "reported"
    /\ UNCHANGED <<nameVars, pdfVars, mergeVars, caseVars, failVars, guiVars, photoVars, tagVars, headerVars, frontend,
                   existing_students, roster, pos, this_course, window_tag,
                   tag_entry, out, seeded, dir0>>

-----------------------------------------------------------------------------
(* The window of anki-pdf-gtk.py *)

\* PhotoRoster(path) and its course_tag succeed (lines 94-95): the file at
\* the absolute path of path is a roster.
IsRoster(path) == abspath(path) \in RosterPaths

HeaderOf(path) == IF path = "r1" THEN CourseHeader ELSE OtherHeader

\* The students of the roster at path; "r1" is the roster of the run.
StudentsOf(path) == IF path = "r1" THEN roster ELSE OtherRoster

\* roster.course_tag of each roster, computed from its header.
RosterTags == [path \in RosterPaths |-> course_tag(HeaderOf(path), NoTag).tag]

\* roster.course_tag of the roster at path.
RosterTag(path) == RosterTags[path]

\* os.path.join(self.anki_folder, "collection.media"), line 209.
MediaOf(folder) == <<folder, Media>>

\* The files of the photo directory of an Anki folder.
DirOf(folder) ==
    IF folder = "f1" THEN dir ELSE IF folder = "f2" THEN dir2 ELSE dir3

NoStudent == [idnumber |-> "", preferredname |-> <<>>, fullname |-> <<>>,
              tags |-> <<>>]

\* A generator of main_iterator as start_button_clicked creates it, line
\* 205: nothing of its body has run.  n counts the students it has
\* printed, printed is what it has printed to its file object; roster,
\* folder and store are what lines 209-217 take from the window at the
\* first call of next(); student is the record it holds while the message
\* dialog is open; seeded is the window's set at the click.
NewIterator(set) ==
    [pc |-> "created", n |-> 0, printed |-> <<>>, roster |-> "",
     folder |-> "", store |-> <<>>, student |-> NoStudent, seeded |-> set,
     reported |-> {}]

\* Lines 209-217 at the first call of next(): the photo directory, the
\* output path and the roster are those of the window at that moment, the
\* dialog object keeps the record store of that moment, the output file
\* is opened for writing.
Opened(it) ==
    IF it.pc = "created"
    THEN [it EXCEPT !.pc = "open", !.roster = self_roster,
                    !.folder = anki_folder, !.store = existing_students]
    ELSE it

\* The generators whose idle source can be dispatched: next() has not
\* returned False, has not raised and is not running.
Idle == {i \in 1 .. Len(iterators) : iterators[i].pc \in {"created", "open"}}

\* The generators that have not finished.
Active ==
    {i \in 1 .. Len(iterators) :
        iterators[i].pc \in {"created", "open", "dialog"}}

\* ConflictDialog.check_existing lines 246-252, 262-264: the message
\* dialog is run when the student is in the store and a name differs or a
\* photo was backed up.
ShowsDialog(student, existing, photo_backup) ==
    /\ existing # NoEntry
    /\ ~(/\ existing.preferredname = student.preferredname
         /\ existing.fullname = student.fullname
         /\ photo_backup = None)

\* MainWindow.check_photo_roster, lines 85-114, with the text path in the
\* roster entry: what self.roster, the tag entry, self.tag,
\* self.this_course and the sensitive widgets are afterwards.  It returns
\* at once when a roster is loaded and its path, which is absolute, is the
\* text (line 87) and when the text is empty (line 89).  Else the file is
\* loaded: for a roster the tag entry gets its course tag, the tag entry
\* and the Start button are made sensitive; for a file that is no roster
\* self.roster is None, the tag entry is emptied, both are made
\* insensitive; check_tag runs on the record store store.
check_photo_roster(path, loaded, entry, old_tag, old_set, sens, store) ==
    IF (loaded # "" /\ loaded = path) \/ path = ""
    THEN [roster |-> loaded, tag_entry |-> entry, tag |-> old_tag,
          this_course |-> old_set, sensitive |-> sens]
    ELSE
      LET text == IF IsRoster(path) THEN RosterTag(abspath(path)) ELSE <<>>
          c == check_tag(text, old_tag, old_set, store)
      IN  [roster |-> IF IsRoster(path) THEN abspath(path) ELSE "",
           tag_entry |-> text, tag |-> c.tag, this_course |-> c.this_course,
           sensitive |-> IF IsRoster(path) THEN sens \cup {"tag", "start"}
                         ELSE sens \ {"tag", "start"}]

\* The roster entry loses the focus with the text path in it,
\* photo_roster_entry_focus_out_event (lines 190-194), or the file chooser
\* answers with the absolute path path (lines 178-185): the entry has the
\* text and check_photo_roster runs.  The entry and its button are reached
\* while they are sensitive.
GtkChooseRoster ==
    \E path \in EntryTexts :
        /\ frontend = "gtk"
        /\ "roster" \in sensitive
        /\ nevents < MaxEvents
        /\ nevents' = nevents + 1
        /\ roster_path' = path
        /\ \E c \in {check_photo_roster(path, self_roster, tag_entry,
                                         window_tag, this_course, sensitive,
                                         existing_students)} :
               /\ self_roster' = c.roster
               /\ tag_entry' = c.tag_entry
               /\ window_tag' = c.tag
               /\ this_course' = c.this_course
               /\ sensitive' = c.sensitive
        /\ UNCHANGED <<nameVars, pdfVars, mergeVars, caseVars, failVars,
                       photoVars, tagVars, headerVars, frontend,
                       existing_students, roster, run_pc, pos, out,
                       reported, seeded, dir0, iterators, writers, dialogs,
                       anki_folder, collections, dir2, dir3>>

\* The response of the folder chooser, lines 148-153, and
\* MainWindow.check_anki_collection, lines 53-83.  When the record store of
\* the folder loads, the roster entry and its button are made sensitive and
\* check_photo_roster runs (line 83) with the text of the roster entry and
\* the record store just loaded.  When it does not (lines 68-74),
\* self.existing_students is None, enable_all(False) makes the four
\* widgets insensitive and check_photo_roster is not called: the roster,
\* the tag and the set of the window stay as they are.  The chooser is not
\* reached while a message dialog is open.
GtkChooseAnkiFolder ==
    \E folder \in Folders :
        /\ frontend = "gtk"
        /\ nevents < MaxEvents
        /\ nevents' = nevents + 1
        /\ dialogs = <<>>
        /\ anki_folder' = folder
        /\ existing_students' = collections[folder]
        /\ IF collections[folder] = NoStore
           THEN /\ sensitive' = {}
                /\ UNCHANGED <<self_roster, tag_entry, window_tag,
                               this_course>>
           ELSE \E c \in {check_photo_roster(roster_path, self_roster,
                                             tag_entry, window_tag,
                                             this_course,
                                             sensitive \cup {"roster"},
                                             collections[folder])} :
                   /\ self_roster' = c.roster
                   /\ tag_entry' = c.tag_entry
                   /\ window_tag' = c.tag
                   /\ this_course' = c.this_course
                   /\ sensitive' = c.sensitive
        /\ UNCHANGED <<nameVars, pdfVars, mergeVars, caseVars, failVars,
                       photoVars, tagVars, headerVars, frontend, roster,
                       run_pc, pos, out, reported, seeded, dir0, iterators,
                       writers, dialogs, roster_path, collections, dir2,
                       dir3>>

TagEntryTexts == {CT, OT, <<>>}

\* The user edits the tag entry and the entry loses the focus:
\* MainWindow.tag_entry_focus_out_event, lines 196-198, calls check_tag.
\* The entry is reached while it is sensitive, also during a run; it
\* loses the focus to a message dialog too.
GtkEditTag ==
    \E text \in TagEntryTexts :
        /\ frontend = "gtk"
        /\ nevents < MaxEvents
        /\ nevents' = nevents + 1
        /\ "tag" \in sensitive
        /\ text # tag_entry
        /\ tag_entry' = text
        /\ LET c == check_tag(text, window_tag, this_course,
                              existing_students)
           IN  /\ window_tag' = c.tag
               /\ this_course' = c.this_course
        /\ UNCHANGED <<nameVars, pdfVars, mergeVars, caseVars, failVars, photoVars,
                       tagVars, headerVars, frontend, existing_students,
                       roster, run_pc, pos, out, reported, seeded, dir0,
                       iterators, writers, dialogs, anki_folder, roster_path, self_roster, sensitive,
                       collections, dir2, dir3>>

\* MainWindow.start_button_clicked, lines 204-206.  The button is
\* clicked while it is sensitive, and nothing makes it insensitive when a
\* run starts: every click creates a generator and installs an idle
\* source for it.  The button is not reached while a message dialog is
\* open.
GuiStartClicked ==
    /\ frontend = "gtk"
    /\ "start" \in sensitive
    /\ dialogs = <<>>
    /\ Len(iterators) < MaxRuns
    /\ iterators' = Append(iterators, NewIterator(this_course))
    /\ UNCHANGED <<nameVars, pdfVars, mergeVars, caseVars, failVars, photoVars, tagVars,
                   headerVars, runVars, writers, dialogs, anki_folder,
                   roster_path, self_roster, sensitive, collections, dir2, dir3, nevents>>

\* The first call of next() on a generator while the window has no
\* roster: line 210 reads self.roster.path, self.roster is None,
\* AttributeError is raised before the output file is opened.
GuiIdleNoRoster ==
    \E i \in Idle :
        /\ iterators[i].pc = "created"
        /\ self_roster = ""
        /\ iterators' = [iterators EXCEPT ![i].pc = "AttributeError"]
        /\ UNCHANGED <<nameVars, pdfVars, mergeVars, caseVars, failVars, photoVars,
                       tagVars, headerVars, runVars, writers, dialogs,
                       anki_folder, roster_path, self_roster, sensitive, collections, dir2, dir3, nevents>>

\* A call of next() on generator i that comes to a student can be made.
AtStudent(i) ==
    /\ iterators[i].pc = "created" => self_roster # ""
    /\ Opened(iterators[i]).n < Len(StudentsOf(Opened(iterators[i]).roster))

\* One idle call of next() on generator i that comes to a student:
\* MainWindow.main_iterator lines 217-220, after lines 209-216 when it is
\* the first call.  The id is taken out of the window's set, the photo is
\* saved, ConflictDialog.check_existing merges the tags.  When the record
\* store the dialog object keeps is None, line 245 raises AttributeError
\* after the photo was saved: no line is printed, the with block closes
\* the file and the generator is finished.  Without a
\* message dialog the line is printed (line 221) and the generator yields;
\* with one, dialog.run() (line 264) runs the main loop inside this call:
\* the line is not printed yet.  The idle sources have the same priority,
\* any of them that is not running may be the one dispatched, also from
\* the main loop of a dialog.
GuiIdleStudent ==
    \E i \in Idle :
        /\ AtStudent(i)
        /\ \E it \in {Opened(iterators[i])} :
           \E entry \in {StudentsOf(it.roster)[it.n + 1]} :
               /\ StudentError(entry) = "none"
               /\ \E student \in {Student(entry, RosterTag(it.roster))} :
                  \E r \in {save_photo(DirOf(it.folder), cmp_cache,
                                       MediaOf(it.folder), student.idnumber,
                                       entry.photo)} :
                  \E existing \in {IF it.store = NoStore THEN NoEntry
                                   ELSE it.store[student.idnumber]} :
                  \E merged \in {ConflictDialog_check_existing(student,
                                                               existing)} :
                      /\ this_course' = this_course \ {student.idnumber}
                      /\ dir' = IF it.folder = "f1" THEN r.dir ELSE dir
                      /\ dir2' = IF it.folder = "f2" THEN r.dir ELSE dir2
                      /\ dir3' = IF it.folder = "f3" THEN r.dir ELSE dir3
                      /\ cmp_cache' = r.cache
                      /\ IF it.store = NoStore
                         THEN /\ iterators' = [iterators EXCEPT ![i] =
                                    [it EXCEPT !.pc = "AttributeError"]]
                              /\ dialogs' = dialogs
                         ELSE IF ShowsDialog(student, existing, r.ret)
                         THEN /\ iterators' = [iterators EXCEPT ![i] =
                                    [it EXCEPT !.pc = "dialog",
                                               !.student = merged]]
                              /\ dialogs' = Append(dialogs, i)
                         ELSE /\ iterators' = [iterators EXCEPT ![i] =
                                    [it EXCEPT !.n = it.n + 1,
                                               !.printed = Append(it.printed,
                                                               Line(merged))]]
                              /\ dialogs' = dialogs
        /\ writers' = Append(writers, i)
        /\ UNCHANGED <<nameVars, pdfVars, mergeVars, caseVars, failVars, pre, call,
                       prev, ncalls, displaced, tagVars, headerVars,
                       frontend, existing_students, roster, run_pc, pos,
                       window_tag, tag_entry, out, reported, seeded, dir0,
                       anki_folder, roster_path, self_roster, sensitive, collections, nevents>>

\* The user closes the innermost message dialog: dialog.run() returns,
\* lines 265 and 221-223: the line of the student is printed and the
\* generator yields.
GuiDialogClosed ==
    /\ dialogs # <<>>
    /\ LET i == dialogs[Len(dialogs)]
           it == iterators[i]
       IN  /\ iterators' = [iterators EXCEPT ![i] =
                 [it EXCEPT !.pc = "open", !.n = it.n + 1,
                            !.student = NoStudent,
                            !.printed = Append(it.printed, Line(it.student))]]
           /\ writers' = Append(writers, i)
    /\ dialogs' = SubSeq(dialogs, 1, Len(dialogs) - 1)
    /\ UNCHANGED <<nameVars, pdfVars, mergeVars, caseVars, failVars, photoVars, tagVars,
                   headerVars, runVars, anki_folder, roster_path, self_roster, sensitive,
                   collections, dir2, dir3, nevents>>

\* An idle call of next() on generator i in which the roster iterator
\* raises at line 217: the error leaves the with block, which closes the
\* output file, and the generator.
GuiParseError ==
    \E i \in Idle :
        /\ AtStudent(i)
        /\ LET it == Opened(iterators[i])
           IN  /\ StudentError(StudentsOf(it.roster)[it.n + 1]) # "none"
               /\ iterators' = [iterators EXCEPT ![i] =
                                   [it EXCEPT !.pc = "ValueError"]]
        /\ UNCHANGED <<nameVars, pdfVars, mergeVars, caseVars, failVars, photoVars,
                       tagVars, headerVars, runVars, writers, dialogs,
                       anki_folder, roster_path, self_roster, sensitive, collections, dir2, dir3, nevents>>

\* The ids of the window's set that the loaded record store does not have.
NotInStore == {id \in this_course : existing_students[id] = NoEntry}

\* The last idle call of next() on generator i: the with block closes the
\* file, lines 224-232 print the report from the window's set and the
\* window's record store, next() returns False.  For an id that the store
\* does not have line 231 raises KeyError; the ids of the set come in any
\* order, those before it are printed.  When the window's record store is
\* None and the set is not empty, line 231 raises TypeError for the first
\* id.
GuiIdleReport ==
    \E i \in Idle :
        /\ iterators[i].pc = "created" => self_roster # ""
        /\ LET it == Opened(iterators[i])
           IN  /\ it.n = Len(StudentsOf(it.roster))
               /\ IF existing_students = NoStore /\ this_course # {}
                  THEN iterators' = [iterators EXCEPT ![i] =
                           [it EXCEPT !.pc = "TypeError"]]
                  ELSE IF existing_students = NoStore \/ NotInStore = {}
                  THEN iterators' = [iterators EXCEPT ![i] =
                           [it EXCEPT !.pc = "closed",
                                      !.reported = this_course]]
                  ELSE \E printed \in SUBSET (this_course \ NotInStore) :
                          iterators' = [iterators EXCEPT ![i] =
                              [it EXCEPT !.pc = "KeyError",
                                         !.reported = printed]]
        /\ UNCHANGED <<nameVars, pdfVars, mergeVars, caseVars, failVars, photoVars,
                       tagVars, headerVars, runVars, writers, dialogs,
                       anki_folder, roster_path, self_roster, sensitive, collections, dir2, dir3, nevents>>

NextGui ==
    \/ GtkChooseRoster
    \/ GtkChooseAnkiFolder
    \/ GtkEditTag
    \/ GuiStartClicked
    \/ GuiIdleNoRoster
    \/ GuiIdleStudent
    \/ GuiDialogClosed
    \/ GuiParseError
    \/ GuiIdleReport

\* The first two lines of the CSV roster.
TermLine == <<"T", "e", "r", "m", ":", " ", "1", "3", "F">>

ClassLine == <<"C", "l", "a", "s", "s", ":", " ", "M", "A", "T", "H", " ", "1", "1", "5", "A", " ", "L", "E", "C", " ", "1">>

\* anki-download-student-photos.py lines 158-161: the class id built from
\* the first cell of the first two lines of the CSV roster.
classid(termline, classline) ==
    LET term == Drop(termline, Len(<<"T", "e", "r", "m", ":", " ">>))
        words == Split(Drop(classline,
                            Len(<<"C", "l", "a", "s", "s", ":", " ">>)))
    IN  words[1] \o words[2] \o <<"-">> \o words[4] \o <<"-">>
            \o TERM_ABBREVS[term[3]] \o <<"-", "2", "0">>
            \o SubSeq(term, 1, 2)

\* anki-download-student-photos.py lines 153-163: the head of the CSV file
\* is read; course_tag_cache holds the class id.
CsvStart ==
    /\ frontend = "csv"
    /\ run_pc = "init"
    /\ course_tag_cache' = classid(TermLine, ClassLine)
    /\ run_pc' = "running"
    /\ UNCHANGED <<nameVars, pdfVars, mergeVars, caseVars, failVars, guiVars, photoVars, tagVars, header_text, got, nreads, frontend,
                   existing_students, roster, pos, this_course, window_tag,
                   tag_entry, out, reported, seeded, dir0>>

\* anki-download-student-photos.py lines 164-190: one line of the CSV
\* roster; the existing names replace the parsed ones, the class id is
\* appended to the existing tags string.
CsvLine ==
    /\ frontend = "csv"
    /\ run_pc = "running"
    /\ pos < Len(roster)
    /\ LET entry == roster[pos + 1]
           old == existing_students[entry.idnumber]
           cid == course_tag_cache
       IN  out' = Append(out,
                IF old # NoEntry
                THEN [idnumber |-> entry.idnumber,
                      preferredname |-> old.preferredname,
                      fullname |-> old.fullname,
                      tags |-> old.tags \o <<" ">> \o cid]
                ELSE [idnumber |-> entry.idnumber,
                      preferredname |-> ParsedNames.preferredname,
                      fullname |-> ParsedNames.fullname,
                      tags |-> cid])
    /\ pos' = pos + 1
    /\ UNCHANGED <<nameVars, pdfVars, mergeVars, caseVars, failVars, guiVars, photoVars, tagVars, headerVars, frontend,
                   existing_students, roster, run_pc, this_course,
                   window_tag, tag_entry, reported, seeded, dir0>>

NextRun ==
    \/ CliStart
    \/ CliStudent
    \/ CliParseError
    \/ CliReport
    \/ NextGui
    \/ CsvStart
    \/ CsvLine

SpecRun == InitRun /\ [][NextRun]_vars

-----------------------------------------------------------------------------
(* Specification SpecMerge: check_existing on one record and one entry *)

\* The records handed to check_existing: a student of the roster as
\* Student() builds it, with the course tag of the roster as its tags.
MergeStudents ==
    {Student(RosterEntry(id, GoodName), tag) : id \in IDs, tag \in {CT, OT}}

\* existing_students.get(student.idnumber): no entry, or an entry with any
\* names and any tags string.
MergeEntries == Entries(StoredNames, TagStrings) \cup {EmptyEntry}

NotChecked == <<"None">>

InitMerge ==
    /\ chk \in [student : MergeStudents, existing : MergeEntries,
                 result : {NotChecked}, by : {"none"}]
    /\ PhotoUnused
    /\ TagsUnused
    /\ HeaderUnused
    /\ RunUnused
    /\ NameUnused
    /\ PdfUnused
    /\ CaseUnused
    /\ raised = "none"
    /\ GuiUnused

\* check_existing of anki-pdf-import.py, lines 54-70, on the record and
\* the entry.
CheckExistingCli ==
    /\ chk_by = "none"
    /\ chk' = [chk EXCEPT
                 !.result = check_existing(chk_student, chk_existing),
                 !.by = "cli"]
    /\ UNCHANGED <<photoVars, tagVars,
                   headerVars, runVars, nameVars, pdfVars, caseVars,
                   failVars, guiVars>>

\* ConflictDialog.check_existing of anki-pdf-gtk.py, lines 244-265, on the
\* record and the entry.
CheckExistingGtk ==
    /\ chk_by = "none"
    /\ chk' = [chk EXCEPT
                 !.result = ConflictDialog_check_existing(chk_student,
                                                          chk_existing),
                 !.by = "gtk"]
    /\ UNCHANGED <<photoVars, tagVars,
                   headerVars, runVars, nameVars, pdfVars, caseVars,
                   failVars, guiVars>>

NextMerge ==
    \/ CheckExistingCli
    \/ CheckExistingGtk

SpecMerge == InitMerge /\ [][NextMerge]_vars

-----------------------------------------------------------------------------
(* Claims about course_tag, checked under SpecHeader *)

HeaderWords == Split(Drop(header_text, PrefixLen))

TermLetters == {"W", "S", "1", "F"}

TermName(c) ==
    IF c = "W" THEN <<"W", "i", "n", "t", "e", "r">>
    ELSE IF c = "S" THEN <<"S", "p", "r", "i", "n", "g">>
    ELSE IF c = "1" THEN <<"S", "u", "m", "m", "e", "r">>
    ELSE <<"F", "a", "l", "l">>

Dash == <<"-">>

\* The tag built from a subject, a number, a section and a term code YYc.
TagOf(subject, number, section, term) ==
    subject \o number \o Dash \o section \o Dash \o TermName(term[3])
        \o Dash \o <<"2", "0", term[1], term[2]>>

ClaimedHeader == <<"P", "h", "o", "t", "o", " ", "R", "o", "s", "t", "e", "r", " ", "f", "o", "r", " ", "M", "A", "T", "H", "1", "1", "5", "A", " ", "1", " ", "L", "E", "C", " ", "1", "3", "F", " ", "-", " ", ".", ".", ".">>

ActualHeader == <<"P", "h", "o", "t", "o", " ", "R", "o", "s", "t", "e", "r", " ", "f", "o", "r", " ", "M", "A", "T", "H", "1", "1", "5", "A", " ", "1", " ", "L", "E", "C", " ", "L", "E", "C", " ", "-", " ", "1", "3", "F">>

ExampleTag == <<"M", "A", "T", "H", "1", "1", "5", "A", "1", "-", "L", "E", "C", "-", "F", "a", "l", "l", "-", "2", "0", "1", "3">>

\* C10 as stated: the header names subject, number, section token and term
\* code, then " - " and an ignored text; "Photo Roster for MATH115A 1 LEC
\* 13F - ..." gives "MATH115A1-LEC-Fall-2013".
C10_TermBeforeDash ==
    nreads > 0 =>
        /\ header_text = ClaimedHeader =>
              got = [tag |-> ExampleTag, err |-> "none"]
        /\ (/\ Len(HeaderWords) = 6
            /\ HeaderWords[5] = Dash
            /\ Len(HeaderWords[4]) = 3
            /\ HeaderWords[4][3] \in TermLetters) =>
              got = [tag |-> TagOf(HeaderWords[1], HeaderWords[2],
                                   HeaderWords[3], HeaderWords[4]),
                     err |-> "none"]

\* C10 amended: the header names subject, number, an ignored token and the
\* section token, then " - " and the term code; "Photo Roster for MATH115A 1
\* LEC LEC - 13F" gives "MATH115A1-LEC-Fall-2013", and in general the tag is
\* SUBJECT+NUMBER, the fourth token, the term name of the third character of
\* the token after the dash, and "20" with its first two characters.
C10_TermAfterDash ==
    nreads > 0 =>
        /\ header_text = ActualHeader =>
              got = [tag |-> ExampleTag, err |-> "none"]
        /\ (/\ Len(HeaderWords) = 6
            /\ HeaderWords[5] = Dash
            /\ Len(HeaderWords[6]) = 3
            /\ HeaderWords[6][3] \in TermLetters) =>
              got = [tag |-> TagOf(HeaderWords[1], HeaderWords[2],
                                   HeaderWords[4], HeaderWords[6]),
                     err |-> "none"]

\* C10 witness: course_tag was read on a header of the amended layout whose
\* ignored token differs from its section token, and on the example.
C10_Witness ==
    /\ nreads > 0
    /\ header_text = (PhotoRosterFor \o <<"M", "A", "T", "H", " ", "1", "1", "5", "A", " ", "L", "E", "C", " ", "1", " ", "-", " ", "1", "4", "W">>)
    /\ got.tag = <<"M", "A", "T", "H", "1", "1", "5", "A", "-", "1", "-", "W", "i", "n", "t", "e", "r", "-", "2", "0", "1", "4">>

Digits == {"0", "1", "2", "3", "4", "5", "6", "7", "8", "9"}

\* The header has the expected form: the literal, six words with "-" as the
\* fifth, and a term code of two digits and one of W, S, 1, F.
ExpectedForm ==
    /\ Len(header_text) >= PrefixLen
    /\ SubSeq(header_text, 1, PrefixLen) = PhotoRosterFor
    /\ Len(HeaderWords) = 6
    /\ HeaderWords[5] = Dash
    /\ Len(HeaderWords[6]) = 3
    /\ HeaderWords[6][1] \in Digits
    /\ HeaderWords[6][2] \in Digits
    /\ HeaderWords[6][3] \in TermLetters

\* C11: a read of course_tag on a header that does not have the expected
\* form raises the error that reports the header text (ValueError), returns
\* no tag and leaves the cached tag unset.
C11_MalformedHeaderRaisesFormatError ==
    (nreads > 0 /\ ~ExpectedForm) =>
        /\ got = [tag |-> NoTag, err |-> "ValueError"]
        /\ course_tag_cache = NoTag

-----------------------------------------------------------------------------
(* Claims about Student._format_name, checked under SpecName *)

CommaSpace == <<",", " ">>

\* The texts of the second components and of the parentheticals of Names.
SecondTexts == {Drop(f, Len(CommaSpace)) : f \in SecondParts \ {<<>>}}

ParenText == <<"J", "O", "H", "N">>

\* LAST, PREFERRED (FIRST)
ParenLayout(last, preferred, first) ==
    last \o CommaSpace \o preferred \o <<" ", "(">> \o first \o <<")">>

\* C17 as stated: with a parenthetical the preferred name is made of the
\* text in parentheses and the full name of the first name before them.
C17_ParenTextIsPreferred ==
    \A last \in LastNames, preferred \in SecondTexts :
        (formatted # NoNames
         /\ name_on_roster = ParenLayout(last, preferred, ParenText)) =>
            /\ formatted.err = "none"
            /\ formatted.preferredname =
                  _name_fixcase(ParenText) \o <<" ">> \o _name_fixcase(last)
            /\ formatted.fullname =
                  _name_fixcase(preferred) \o <<" ">> \o _name_fixcase(last)

\* C17 amended: with a parenthetical the preferred name is made of the first
\* name before the parentheses and the full name of the text in them.
C17_ParenTextIsRealFirstName ==
    \A last \in LastNames, preferred \in SecondTexts :
        (formatted # NoNames
         /\ name_on_roster = ParenLayout(last, preferred, ParenText)) =>
            /\ formatted.err = "none"
            /\ formatted.preferredname =
                  _name_fixcase(preferred) \o <<" ">> \o _name_fixcase(last)
            /\ formatted.fullname =
                  _name_fixcase(ParenText) \o <<" ">> \o _name_fixcase(last)

\* C17 witness: "DOE, JO (JOHN)" was formatted to "Jo Doe" and "John Doe".
C17_Witness ==
    /\ name_on_roster = <<"D", "O", "E", ",", " ", "J", "O", " ", "(", "J", "O", "H", "N", ")">>
    /\ formatted = [preferredname |-> <<"J", "o", " ", "D", "o", "e">>, fullname |-> <<"J", "o", "h", "n", " ", "D", "o", "e">>, err |-> "none"]

\* The suffixes of valid names: none, or a third component.
ValidSuffixParts == {x \in SuffixParts : Len(SplitOn(x, CommaSpace)) <= 2}

\* The suffix as the full name is to show it: "Jr" or "Sr" for JR and SR in
\* any case, in upper case otherwise.
ClaimedSuffix(suffix) ==
    IF upper(suffix) \in {JR, SR} THEN title(upper(suffix))
    ELSE upper(suffix)

\* The first word of a text and the words after it.
FirstWord(text) == IF Split(text) = <<>> THEN <<>> ELSE Split(text)[1]

OtherWords(text) ==
    IF Split(text) = <<>> THEN <<>> ELSE Join(Tail(Split(text)))

\* C18: for the valid names LAST / LAST, FIRST MIDDLE / LAST, FIRST MIDDLE,
\* SUFFIX (in upper case) / LAST (FIRST) / LAST, PREFERRED (FIRST): the preferred name is
\* "First Last", or "Last" without a first name; the full name is the
\* non-empty ones of real first name, middle name, last name and suffix
\* joined by single spaces; with a parenthetical the real first name is the
\* text in parentheses, there is no middle name, and no word of the
\* preferred first name comes into the full name.
C18_PreferredAndFullName ==
    formatted # NoNames =>
        /\ \A last \in LastNames :
              name_on_roster = last =>
                formatted = [preferredname |-> _name_fixcase(last),
                             fullname |-> _name_fixcase(last),
                             err |-> "none"]
        /\ \A last \in LastNames, second \in SecondTexts,
              x \in {y \in ValidSuffixParts : y = upper(y)} :
              name_on_roster = last \o CommaSpace \o second \o x =>
                formatted =
                  [preferredname |->
                      _name_fixcase(FirstWord(second)) \o <<" ">>
                          \o _name_fixcase(last),
                   fullname |->
                      Join(NonEmpty(<<_name_fixcase(FirstWord(second)),
                                      _name_fixcase(OtherWords(second)),
                                      _name_fixcase(last),
                                      ClaimedSuffix(Drop(x, Len(CommaSpace)))>>)),
                   err |-> "none"]
        /\ \A last \in LastNames :
              name_on_roster = last \o <<" ", "(">> \o ParenText \o <<")">> =>
                formatted =
                  [preferredname |-> _name_fixcase(last),
                   fullname |-> _name_fixcase(ParenText) \o <<" ">>
                                   \o _name_fixcase(last),
                   err |-> "none"]
        /\ \A last \in LastNames, preferred \in SecondTexts :
              name_on_roster = ParenLayout(last, preferred, ParenText) =>
                /\ formatted =
                     [preferredname |-> _name_fixcase(preferred) \o <<" ">>
                                           \o _name_fixcase(last),
                      fullname |-> _name_fixcase(ParenText) \o <<" ">>
                                      \o _name_fixcase(last),
                      err |-> "none"]
                /\ \A w \in Range(Split(_name_fixcase(preferred))) :
                      w \in Range(Split(formatted.fullname)) =>
                        w \in Range(Split(_name_fixcase(ParenText)))
                              \cup Range(Split(_name_fixcase(last)))

\* C18 witness: "DOE, JOHN QUINCY, SR" was formatted to "John Doe" and
\* "John Quincy Doe Sr".
C18_Witness ==
    /\ name_on_roster = <<"D", "O", "E", ",", " ", "J", "O", "H", "N", " ", "Q", "U", "I", "N", "C", "Y", ",", " ", "S", "R">>
    /\ formatted = [preferredname |-> <<"J", "o", "h", "n", " ", "D", "o", "e">>, fullname |-> <<"J", "o", "h", "n", " ", "Q", "u", "i", "n", "c", "y", " ", "D", "o", "e", " ", "S", "r">>, err |-> "none"]

\* C19: a name with more than three components, with text after the closing
\* parenthesis (a suffix after a parenthetical included) or with the empty
\* parenthetical "()" raises the error and gives no names.
C19_MalformedNameRaises ==
    formatted # NoNames =>
        \A last \in LastNames, f \in SecondParts :
            /\ \A x \in SuffixParts \ ValidSuffixParts, q \in ParenParts :
                  (f # <<>> /\ name_on_roster = last \o f \o x \o q) =>
                     formatted.err = "ValueError"
            /\ \A x \in SuffixParts \ {<<>>}, q \in ParenParts \ {<<>>} :
                  name_on_roster = last \o f \o q \o x =>
                     formatted.err = "ValueError"
            /\ name_on_roster = last \o f \o <<" ", "(", "J", "O", "H", "N", ")", " ", "X">> =>
                     formatted.err = "ValueError"
            /\ \A x \in SuffixParts :
                  name_on_roster = last \o f \o x \o <<" ", "(", ")">> =>
                     formatted.err = "ValueError"

\* The text after the last space of a full name.
LastWord(text) == Split(text)[Len(Split(text))]

\* C20: for LAST, FIRST MIDDLE, SUFFIX the full name has the case-corrected
\* last name and ends with the suffix: "Jr" or "Sr" when the suffix of the
\* name is JR or SR in any case, the suffix in upper case otherwise.
C20_SuffixCaseInsensitive ==
    \A last \in LastNames, second \in SecondTexts,
       x \in ValidSuffixParts \ {<<>>} :
        (formatted # NoNames
         /\ name_on_roster = last \o CommaSpace \o second \o x) =>
            LET suffix == Drop(x, Len(CommaSpace))
            IN  /\ formatted.err = "none"
                /\ IsSubstring(_name_fixcase(last), formatted.fullname)
                /\ LastWord(formatted.fullname) =
                      ClaimedSuffix(suffix)

-----------------------------------------------------------------------------
(* Claims about the roster iteration, checked under SpecPdf *)

\* C13: every record yielded has the photo of the image region its id and
\* name were read from, with and without pdfimages, whatever the number of
\* images on the pages.
C13_RecordHasPhotoOfItsRegion ==
    \A k \in 1 .. Len(yielded) : yielded[k].photo = yielded[k].region

FullPages == \A page \in 1 .. (Len(pages) - 1) : pages[page] = PerPage

\* C14: num_students is (pages - 1) * 6 + the images on the last page, 13
\* for pages of 6, 6 and 1 images; it is the number of records of the whole
\* iteration when every page but the last has 6 images, and never less than
\* that number.
C14_NumStudents ==
    num_students_got # Unread =>
        /\ num_students_got = (Len(pages) - 1) * 6 + pages[Len(pages)]
        /\ pages = <<6, 6, 1>> => num_students_got = 13
        /\ it_pc = "done" =>
              /\ Len(yielded) = ImagesBefore(pages, Len(pages))
              /\ FullPages => num_students_got = Len(yielded)
              /\ num_students_got >= Len(yielded)

\* C14 witness: the roster of pages with 6, 6 and 1 images was iterated to
\* its end, 13 records were yielded and num_students is 13.
C14_Witness ==
    /\ pages = <<6, 6, 1>>
    /\ it_pc = "done"
    /\ Len(yielded) = 13
    /\ num_students_got = 13

\* C16 as stated: with and without pdfimages, nothing is extracted for a
\* student before the consumer is done with the record of the student
\* before: the regions read and the images taken out of the PDF are never
\* more than the completed records and one.
C16_NothingExtractedAhead ==
    /\ Len(yielded) <= completed + 1
    /\ Cardinality(extracted_text) <= completed + 1
    /\ Cardinality(extracted_photos) <= completed + 1

\* The regions of the pages up to page number page.
RegionsUpTo(page) == {im \in AllImages(pages) : im[1] <= page}

\* The page of the last record yielded, -1 before the first.
LastPageYielded ==
    IF yielded = <<>> THEN -1 ELSE yielded[Len(yielded)].region[1]

\* C16 amended: records are built and yielded one at a time, each after the
\* consumer is done with the record before.  The text of a whole page is
\* extracted when the iteration comes to the first student of the page, so
\* that the text extracted is that of the pages up to the page of the last
\* record.  Without pdfimages the image of a student is taken out of the
\* PDF only when the record of the student is built; with pdfimages the
\* images of the whole document are taken out when the iteration starts,
\* before the first record.  An iteration ended by an error has read
\* at most one page and taken at most one image more than its records.
C16_TextPulledPhotosDumped ==
    /\ Len(yielded) <= completed + 1
    /\ it_pc = "created" => (extracted_text = {} /\ extracted_photos = {})
    /\ (it_pc \in {"started", "done", "abandoned"}) =>
          extracted_text = RegionsUpTo(LastPageYielded)
    /\ it_pc = "raised" =>
          extracted_text \subseteq RegionsUpTo(LastPageYielded + 1)
    /\ (~pdfimages_path /\ it_pc # "raised") =>
          extracted_photos = {yielded[k].region : k \in 1 .. Len(yielded)}
    /\ (~pdfimages_path /\ it_pc = "raised") =>
          /\ {yielded[k].region : k \in 1 .. Len(yielded)}
                \subseteq extracted_photos
          /\ Cardinality(extracted_photos) <= Len(yielded) + 1
    /\ (pdfimages_path /\ it_pc # "created"
        /\ raised # "CalledProcessError") =>
          extracted_photos = AllImages(pages)

\* C16 witness: with pdfimages the first record has been yielded, the
\* consumer is not done with it, and the text and the images of later
\* students are out of the PDF already.
C16_Witness ==
    /\ pdfimages_path
    /\ it_pc = "started"
    /\ Len(yielded) = 1
    /\ completed = 0
    /\ Cardinality(extracted_text) > 1
    /\ Cardinality(extracted_photos) > 1

-----------------------------------------------------------------------------
(* Specification SpecCase: the case correction of a name *)

\* name_case_word of anki-download-student-photos.py, lines 79-83.
name_case_word(name) ==
    LET fixed == upper(Slice(name, 1, 1)) \o Drop(name, 1)
    IN  IF Slice(fixed, 1, 2) \in {<<"M", "c">>, <<"O", "'">>, <<"D", "'">>}
        THEN Slice(fixed, 1, 2) \o upper(Slice(fixed, 3, 3))
                \o Drop(fixed, 3)
        ELSE fixed

\* name_case_hyphenated of anki-download-student-photos.py, lines 75-78.
name_case_hyphenated(name) ==
    IF name \in {lower(particle) : particle \in Particles} THEN name
    ELSE LET words == SplitOn(name, <<"-">>)
         IN  JoinWith([i \in 1 .. Len(words) |-> name_case_word(words[i])],
                      <<"-">>)

\* name_case of anki-download-student-photos.py, lines 72-84.
name_case(name) ==
    LET words == Split(name)
    IN  Join([i \in 1 .. Len(words) |-> name_case_hyphenated(words[i])])

\* Words of names in upper case.
UpperWords ==
    {<<"M", "C", "D", "O", "N", "A", "L", "D">>,
     <<"O", "'", "B", "R", "I", "E", "N">>,
     <<"D", "'", "A", "R", "C", "Y">>,
     <<"D", "E">>,
     <<"E", "L">>,
     <<"L", "A">>,
     <<"L", "O", "S">>,
     <<"L", "A", "S">>,
     <<"S", "M", "I", "T", "H">>,
     <<"M", "C">>,
     <<"M">>,
     <<"D", "E", "L", "A">>}

\* A word with its first letter in upper case and the others in lower case.
Capitalized(word) == upper(Slice(word, 1, 1)) \o lower(Drop(word, 1))

\* The words in upper case, in lower case and capitalized, pairs of them
\* joined by a hyphen, and a last name of three words.
CaseWords ==
    UNION {{w, lower(w), Capitalized(w)} : w \in UpperWords}
    \cup {v \o <<"-">> \o w : v, w \in {<<"S", "M", "I", "T", "H">>,
     <<"D", "E">>,
     <<"m", "c", "d", "o", "n", "a", "l", "d">>,
     <<"J", "o", "n", "e", "s">>}}
    \cup {<<"D", "E", " ", "L", "A", " ", "C", "R", "U", "Z">>}

InitCase ==
    /\ fix_in \in CaseWords
    /\ fix_by = "nobody"
    /\ fix_out = NotFixed
    /\ PhotoUnused
    /\ TagsUnused
    /\ HeaderUnused
    /\ RunUnused
    /\ NameUnused
    /\ PdfUnused
    /\ raised = "none"
    /\ GuiUnused
    /\ MergeUnused

\* Student._format_name corrects the case of a part of the name, e.g. line
\* 241.
FixCase ==
    /\ fix_out = NotFixed
    /\ fix_out' = _name_fixcase(fix_in)
    /\ fix_by' = "photoroster"
    /\ UNCHANGED <<fix_in, photoVars, tagVars, headerVars, runVars, nameVars,
                   pdfVars, mergeVars, failVars, guiVars>>

\* format_name of anki-download-student-photos.py puts the name in lower
\* case, line 87, and corrects the case of a part of it, e.g. line 115.
NameCase ==
    /\ fix_out = NotFixed
    /\ fix_out' = name_case(lower(fix_in))
    /\ fix_by' = "download"
    /\ UNCHANGED <<fix_in, photoVars, tagVars, headerVars, runVars, nameVars,
                   pdfVars, mergeVars, failVars, guiVars>>

NextCase ==
    \/ FixCase
    \/ NameCase

SpecCase == InitCase /\ [][NextCase]_vars

-----------------------------------------------------------------------------
(* Claims about the case correction, checked under SpecCase *)

\* The corrected form of a sub-word: first letter in upper case, the others
\* in lower case, the third in upper case after Mc, O' and D'.
ClaimedSubWord(word) ==
    LET fixed == Capitalized(word)
    IN  IF Slice(fixed, 1, 2) \in {<<"M", "c">>, <<"O", "'">>, <<"D", "'">>}
        THEN Slice(fixed, 1, 2) \o upper(Slice(fixed, 3, 3))
                \o Drop(fixed, 3)
        ELSE fixed

\* The corrected form of a word: a particle in lower case, else the
\* corrected sub-words joined by hyphens.
ClaimedWord(word) ==
    IF upper(word) \in Particles THEN lower(word)
    ELSE LET subs == SplitOn(word, <<"-">>)
         IN  JoinWith([i \in 1 .. Len(subs) |-> ClaimedSubWord(subs[i])],
                      <<"-">>)

ClaimedName(name) ==
    Join([i \in 1 .. Len(Split(name)) |-> ClaimedWord(Split(name)[i])])

\* C21: whatever the case of the letters, the case correction gives every
\* word of a name in its corrected form: de, el, la, los, las in lower case,
\* otherwise every hyphen-separated sub-word capitalized, with the third
\* character in upper case after Mc, O' and D'; "MCDONALD" gives "McDonald",
\* "O'BRIEN" gives "O'Brien", "DE LA CRUZ" gives "de la Cruz".
C21_CaseCorrectedWhateverTheCase ==
    fix_out # NotFixed =>
        /\ fix_out = ClaimedName(fix_in)
        /\ fix_in = <<"M", "C", "D", "O", "N", "A", "L", "D">> => fix_out = <<"M", "c", "D", "o", "n", "a", "l", "d">>
        /\ fix_in = <<"O", "'", "B", "R", "I", "E", "N">> => fix_out = <<"O", "'", "B", "r", "i", "e", "n">>
        /\ fix_in = <<"D", "E", " ", "L", "A", " ", "C", "R", "U", "Z">> => fix_out = <<"d", "e", " ", "l", "a", " ", "C", "r", "u", "z">>

-----------------------------------------------------------------------------
(* Specification SpecGui: the window of anki-pdf-gtk.py alone *)

InitGui ==
    /\ InitRun
    /\ frontend = "gtk"

SpecGui == InitGui /\ [][NextGui]_vars

-----------------------------------------------------------------------------
(* Claims about the import run, checked under SpecRun *)

NoDup(seq) == \A i, j \in 1 .. Len(seq) : seq[i] = seq[j] => i = j

Processed == {roster[i].idnumber : i \in 1 .. pos}

\* The students generator it has printed the line of.
ProcessedBy(it) == {StudentsOf(it.roster)[k].idnumber : k \in 1 .. it.n}

\* The lines written, each with the entry of the record store it was
\* merged with: those of the import file of the scripts and those printed
\* by the generators of the window.
Written ==
    {<<out[i], existing_students[out[i].idnumber]>> : i \in 1 .. Len(out)}
    \cup UNION {{<<iterators[i].printed[k],
                   iterators[i].store[iterators[i].printed[k].idnumber]>> :
                    k \in 1 .. Len(iterators[i].printed)} :
                i \in 1 .. Len(iterators)}

\* The ids of the store whose tags string, split at white space, has text
\* as one of its tokens.
TokenMembers(text) ==
    {id \in IDs : existing_students[id] # NoEntry
                  /\ text \in Range(Split(existing_students[id].tags))}

StudentPaths(id) == {p \in Paths : p[1] = id}

\* No student of roster r has a region that does not parse.
ErrorFree(r) == \A k \in 1 .. Len(r) : StudentError(r[k]) = "none"

\* C5: every line written for a student of the record store carries the
\* preferred name and the full name of the store, in every front end, and
\* every processed student has its line.
C5_ExistingNamesWin ==
    /\ \A w \in Written :
          w[2] # NoEntry =>
              /\ w[1].preferredname = w[2].preferredname
              /\ w[1].fullname = w[2].fullname
    /\ run_pc \in {"init", "running", "reported"} => Len(out) = pos

\* C7 as stated: the tags of a Student record repeat no token after
\* construction and after the merge with any tags string of the store, so
\* that the tags field of its line repeats none.
C7_NoRepeatedTag ==
    /\ chk_by # "unused" => NoDup(chk_student.tags)
    /\ chk_by \in {"cli", "gtk"} =>
          /\ NoDup(chk_result.tags)
          /\ NoDup(Split(Line(chk_result).tags))

\* The tokens of the store as they are, followed by the tags of the record
\* that are not among them.
KeptThenNew(own, stored) ==
    Split(stored) \o SelectSeq(own, LAMBDA t : t \notin Range(Split(stored)))

\* C7 amended: the tags of a Student record repeat no token after
\* construction; after check_existing of either front end they are the
\* tags of the record when the store has no entry for the student, else the
\* tokens of the tags string of the store, as they are and in their order,
\* followed by the tags of the record that are not among them; the tags
\* field of the line has these tokens.  So the line repeats no tag when the
\* student is new or the tags string of the store repeats none.
C7_MergeKeepsStoredAddsNew ==
    /\ chk_by # "unused" => NoDup(chk_student.tags)
    /\ chk_by \in {"cli", "gtk"} =>
          /\ chk_existing = NoEntry => chk_result.tags = chk_student.tags
          /\ chk_existing # NoEntry =>
                chk_result.tags =
                    KeptThenNew(chk_student.tags, chk_existing.tags)
          /\ Split(Line(chk_result).tags) = chk_result.tags
          /\ (chk_existing = NoEntry \/ NoDup(Split(chk_existing.tags))) =>
                NoDup(Split(Line(chk_result).tags))

\* C7 witness: a course is imported again: the store has the course tag of
\* the record and another tag, and the merged record has each once.
C7_Witness ==
    /\ chk_by = "gtk"
    /\ chk_existing # NoEntry
    /\ chk_existing.tags = CT \o Sp \o OT
    /\ chk_student.tags = <<CT>>
    /\ chk_result.tags = <<CT, OT>>

\* C8: the set seeded for drop detection holds exactly the ids of the store
\* that have the course tag as a whole token of their tags string.
C8_SeedIsWholeTokenMatch ==
    /\ (frontend = "cli" /\ run_pc # "init") =>
          seeded = TokenMembers(course_tag_cache)
    /\ (frontend = "gtk" /\ self_roster # "" /\ iterators = <<>>
           /\ existing_students = collections["f1"]) =>
          this_course = TokenMembers(window_tag)

\* C9: during a run the drop-detection set is the seeded set without the
\* students processed so far, the set reported at the end is the seeded set
\* without all students processed, and no file of a reported student was
\* changed.
C9_DropSetOnlyShrinks ==
    /\ frontend = "cli" =>
          /\ run_pc = "running" => this_course = seeded \ Processed
          /\ run_pc = "reported" =>
                /\ reported = seeded \ Processed
                /\ \A id \in reported :
                      \A p \in StudentPaths(id) : dir[p] = dir0[p]
    /\ (frontend = "gtk" /\ Len(iterators) = 1) =>
          LET it == iterators[1]
          IN  /\ it.pc = "open" => this_course = it.seeded \ ProcessedBy(it)
              /\ it.pc = "closed" =>
                    /\ it.reported = it.seeded \ ProcessedBy(it)
                    /\ \A id \in it.reported :
                          \A p \in StudentPaths(id) : dir[p] = dir0[p]

\* C12: when the iterator raises for a student of the roster, no line has
\* been written and no photo saved or replaced for any student of the
\* roster.
C12_AbortLeavesNothing ==
    /\ run_pc = "aborted" =>
          /\ out = <<>>
          /\ dir = dir0
    /\ (frontend = "gtk" /\ Len(iterators) = 1
           /\ iterators[1].pc = "ValueError") =>
          /\ iterators[1].printed = <<>>
          /\ dir = dir0
          /\ dir2 = EmptyDir
          /\ dir3 = EmptyDir

\* The tags of the line of a student: the tags of the store, if any, then
\* the course tag if it is not among them.
MergedTags(old, tag) ==
    IF old = NoEntry THEN <<tag>>
    ELSE IF tag \in Range(Split(old.tags)) THEN Split(old.tags)
    ELSE Append(Split(old.tags), tag)

\* C15: in the command line and the graphical front end a run over a roster
\* of k records that parse is not ended by an error, writes k lines, the
\* line of student i as the i-th, each after the photo was persisted and
\* the tags merged, and has written all k when it reports the set of
\* unseen ids.
C15_OneLinePerStudentThenReport ==
    /\ (frontend = "cli" /\ ErrorFree(roster)) =>
          /\ run_pc \in {"init", "running", "reported"}
          /\ Len(out) = pos
          /\ \A i \in 1 .. Len(out) :
                /\ out[i].idnumber = roster[i].idnumber
                /\ Exists(dir, photo_filename(out[i].idnumber))
                /\ Split(out[i].tags) =
                      MergedTags(existing_students[out[i].idnumber],
                                 course_tag_cache)
          /\ run_pc = "reported" => Len(out) = Len(roster)
    /\ (frontend = "gtk" /\ Len(iterators) = 1
           /\ iterators[1].pc # "created"
           /\ iterators[1].roster # ""
           /\ ErrorFree(StudentsOf(iterators[1].roster))) =>
          LET it == iterators[1]
          IN  /\ it.pc \in {"open", "dialog", "closed"}
              /\ Len(it.printed) = it.n
              /\ \A i \in 1 .. Len(it.printed) :
                    /\ it.printed[i].idnumber =
                          StudentsOf(it.roster)[i].idnumber
                    /\ Exists(DirOf(it.folder),
                              photo_filename(it.printed[i].idnumber))
                    /\ Split(it.printed[i].tags) =
                          MergedTags(it.store[it.printed[i].idnumber],
                                     RosterTag(it.roster))
              /\ it.pc = "closed" => it.n = Len(StudentsOf(it.roster))

-----------------------------------------------------------------------------
(* Claims about the runs of the window, checked under SpecGui *)

\* The calls of one run are not separated by a call of another run.
NoAlternation ==
    \A i, j, k \in 1 .. Len(writers) :
        (i < j /\ j < k /\ writers[i] = writers[k]) => writers[j] = writers[i]

\* C23: in the GUI front end at most one import run is active at any time:
\* while a run started by the Start button has not finished no second run
\* starts, and the writes of two runs to the photo directory and to the
\* output file never alternate.
C23_AtMostOneRunActive ==
    /\ Cardinality(Active) <= 1
    /\ NoAlternation

====
